---- MODULE Spec2Model ----
(***************************************************************************)
(* Model of the bank-csv-normalizer core:                                  *)
(*   - finalize (engine/core/completion.py): the staged commit sequence    *)
(*     over the source file, the duplicate-index file, its snapshot and    *)
(*     restore copy, and the staged normalized output;                     *)
(*   - classify_duplicate (engine/core/duplicate_index.py): the pure       *)
(*     classification of a record against the in-memory index;             *)
(*   - sequences of finalize runs over the same index file (SpecRuns);     *)
(*   - main (engine/process_csv.py): the row loop, the final               *)
(*     classification and its four branches, over sequences of runs, with  *)
(*     the index file written and read back as CSV (SpecMain).             *)
(*   - rotate_duplicate_backups (engine/core/duplicate_index.py) on its    *)
(*     own, over directories of backups (SpecRotate), and as step 5 of     *)
(*     finalize over the backup directory of the run;                      *)
(*   - two runs in finalize at the same time (SpecConcurrent).             *)
(*                                                                         *)
(* Files are modelled by their existence and their content as a sequence   *)
(* of lines.  Every file operation may fail; a copy into a file opens the  *)
(* destination for writing (truncating it) and then writes line by line,   *)
(* so a failure part-way leaves a prefix.                                  *)
(***************************************************************************)
EXTENDS Integers, Sequences, FiniteSets, TLC

\* ------------------------------------------------------------------ bounds
\* Most entries the index holds before the run (beyond the header line).
MaxOld == 2
\* Most accepted rows handed to finalize.
MaxNew == 2
\* Most entries stored under the looked-up key in the classification model.
MaxEntries == 2
\* Most backups past the age threshold in the directory handed to the rotation.
MaxExpired == 2
\* Most backups beyond MAX_BACKUPS among those within the age threshold.
MaxExcess == 2

\* ------------------------------------------------------------------- files
NoFile == [exists |-> FALSE, lines |-> <<>>]

FileOf(ls) == [exists |-> TRUE, lines |-> ls]

Header == <<"header", 0>>

OldEntries(n) == [i \in 1..n |-> <<"old", i>>]

NewRows(n) == [i \in 1..n |-> <<"new", i>>]

Prefix(s, n) == SubSeq(s, 1, n)

Range(s) == {s[i] : i \in DOMAIN s}

\* The states the live duplicate-index file can be in when a run starts:
\* absent (first run), a header followed by committed entries, or the empty
\* file that a rollback to the empty restore copy leaves behind.
InitialIndexFiles ==
    {NoFile, FileOf(<<>>)} \cup {FileOf(<<Header>> \o OldEntries(n)) : n \in 1..MaxOld}

\* transformed_rows: Optional[List[...]]: None, or a list of accepted rows.
TransformedRowsInputs ==
    {[isNone |-> TRUE, rows |-> <<>>]} \cup {[isNone |-> FALSE, rows |-> NewRows(n)] : n \in 0..MaxNew}

\* `if transformed_rows is not None:` -- an empty list passes.
Truthy_notNone(tr) == ~tr.isNone

\* `if transformed_rows:` -- a list that is neither None nor empty.

Truthy(tr) == ~tr.isNone /\ Len(tr.rows) > 0

\* Destinations of the source file.
Incoming == [dir |-> "incoming", suffix |-> ""]

Processed(suffix) == [dir |-> "processed", suffix |-> suffix]

Failed == [dir |-> "failed", suffix |-> "-failed.csv"]

\* shutil.move(src, dst) on a set of locations holding the file.  Outcomes:
\* "ok" (renamed), "fail" (nothing changed), "copied" (os.rename failed, the
\* copy to dst succeeded and removing src raised: the file is at both).
MoveOutcomes == {"ok", "fail", "copied"}

MoveResult(m) == IF m.raised THEN "raised" ELSE "ok"

Move(locs, from, to, outcome) ==
    IF from \notin locs \/ outcome = "fail" THEN [raised |-> TRUE, locs |-> locs]
    ELSE IF outcome = "copied" THEN [raised |-> TRUE, locs |-> locs \cup {to}]
    ELSE [raised |-> FALSE, locs |-> (locs \ {from}) \cup {to}]

\* shutil.copy2(src, dst) as a whole: every result it can leave behind.
CopyResults(src, dst) ==
    IF ~src.exists THEN {[raised |-> TRUE, file |-> dst]}
    ELSE {[raised |-> FALSE, file |-> FileOf(src.lines)],
          [raised |-> TRUE, file |-> dst]}
         \cup {[raised |-> TRUE, file |-> FileOf(Prefix(src.lines, n))] : n \in 0..Len(src.lines)}

\* append_to_duplicate_index(path, rows): every result it can leave behind.
AppendResults(file, rows) ==
    IF Len(rows) = 0 THEN {[raised |-> FALSE, file |-> file]}
    ELSE LET full == (IF file.exists THEN <<>> ELSE <<Header>>) \o rows
         IN  {[raised |-> FALSE, file |-> FileOf(file.lines \o full)],
              [raised |-> TRUE, file |-> file]}
             \cup {[raised |-> TRUE, file |-> FileOf(file.lines \o Prefix(full, n))] : n \in 0..(Len(full) - 1)}

\* A variant that moves the live index to the snapshot path instead of
\* copying it.
CreateUpdatedDuplicateIndex_moving(live, snap, rows) ==
    {[raised |-> a.raised, live |-> NoFile, snapshot |-> a.file] : a \in AppendResults(live, rows)}

\* A variant that appends the rows to the live index file itself.
CreateUpdatedDuplicateIndex_inPlace(live, snap, rows) ==
    {[raised |-> a.raised, live |-> a.file, snapshot |-> a.file] : a \in AppendResults(live, rows)}

\* create_updated_duplicate_index: copy the live index (when it exists) to
\* the snapshot path, then append the rows.  Results: the live index file
\* and the snapshot file afterwards, and whether it raised.
CreateUpdatedDuplicateIndex(live, snap, rows) ==
    LET copies == IF live.exists THEN CopyResults(live, snap)
                  ELSE {[raised |-> FALSE, file |-> snap]}
    IN  UNION {IF c.raised
               THEN {[raised |-> TRUE, live |-> live, snapshot |-> c.file]}
               ELSE {[raised |-> a.raised, live |-> live, snapshot |-> a.file] :
                        a \in AppendResults(c.file, rows)} :
               c \in copies}

\* open(path, "w").close(): create the empty restore copy.
CreateEmptyResults(dst) ==
    {[raised |-> FALSE, file |-> FileOf(<<>>)], [raised |-> TRUE, file |-> dst]}

\* The output staged under its final name in NORMALIZED_DIR.
TempOutput_inNormalized == [dir |-> "normalized", suffix |-> ".csv"]

\* Location of the staged normalized output and of its destination.
TempOutput == [dir |-> "temp", suffix |-> ".tmp.csv"]

Normalized(suffix) == [dir |-> "normalized", suffix |-> suffix]

\* --------------------------------------------------- the backup directory
MAX_BACKUPS == 50

MAX_BACKUP_AGE_DAYS == 365

\* A file name of the backup directory is a sequence of parts: a run
\* timestamp (its day number; RUN_TS_FORMAT), free text, or the ending
\* "-duplicate-index.csv".
TsPart(d) == [kind |-> "timestamp", day |-> d]

TextPart == [kind |-> "text", day |-> 0]

SuffixPart == [kind |-> "-duplicate-index.csv", day |-> 0]

\* f"{run_timestamp}-duplicate-index.csv"
BackupName(d) == <<TsPart(d), SuffixPart>>

\* f"{run_timestamp}-{csv name}-{bank_name}-duplicate-index.csv"
SnapshotName(d) == <<TsPart(d), TextPart, SuffixPart>>

\* Names the rotation passes over: no timestamp, or another ending.
ForeignNames == {<<TextPart, SuffixPart>>, <<TextPart>>}

\* filename.endswith("-duplicate-index.csv")
EndsWithSuffix(name) == name[Len(name)] = SuffixPart

\* filename[:-len("-duplicate-index.csv")]
TsPartOf(name) == SubSeq(name, 1, Len(name) - 1)

\* datetime.strptime(ts_part, RUN_TS_FORMAT) succeeds only when the whole
\* of ts_part is one timestamp; anything after it raises ValueError.
ParsesAsTimestamp(ts_part) == Len(ts_part) = 1 /\ ts_part[1].kind = "timestamp"

TimestampOf(name) == name[1].day

\* The (timestamp, filename) pairs the rotation collects.
BackupFiles(dir) == {n \in dir : EndsWithSuffix(n) /\ ParsesAsTimestamp(TsPartOf(n))}

\* backup_files.sort(key=lambda x: x[0]): oldest first, found by going
\* through the days in order.  Names that parse to the same timestamp are
\* the same name.
SortOldestFirst(S) ==
    IF S = {} THEN <<>>
    ELSE LET days == {TimestampOf(n) : n \in S}
             last == CHOOSE d \in days : \A e \in days : e <= d
             ordered == SelectSeq([i \in 1..(last + 1) |-> i - 1], LAMBDA d : d \in days)
         IN  [i \in DOMAIN ordered |-> CHOOSE n \in S : TimestampOf(n) = ordered[i]]

\* The files within the age threshold, oldest first: `kept`.
KeptByAge(dir, today) ==
    SelectSeq(SortOldestFirst(BackupFiles(dir)),
              LAMBDA n : ~(TimestampOf(n) < today - MAX_BACKUP_AGE_DAYS))

\* The files past the age threshold: `timestamp < cutoff`.
ExpiredByAge(dir, today) ==
    SelectSeq(SortOldestFirst(BackupFiles(dir)),
              LAMBDA n : TimestampOf(n) < today - MAX_BACKUP_AGE_DAYS)

\* A variant of the count rule that removes the newest files.
ExcessByCount_newest(dir, today) ==
    LET kept == KeptByAge(dir, today)
    IN  IF Len(kept) > MAX_BACKUPS
        THEN SubSeq(kept, MAX_BACKUPS + 1, Len(kept))
        ELSE <<>>

\* kept[:excess]
ExcessByCount(dir, today) ==
    LET kept == KeptByAge(dir, today)
    IN  IF Len(kept) > MAX_BACKUPS
        THEN SubSeq(kept, 1, Len(kept) - MAX_BACKUPS)
        ELSE <<>>

\* The files os.remove is called on.
Attempted(dir, today) == Range(ExpiredByAge(dir, today)) \cup Range(ExcessByCount(dir, today))

\* rotate_duplicate_backups; `failing` are the files whose os.remove raises.
\* Results: the directory afterwards, the files removed by either rule and
\* the messages handed to the log_event argument.
rotate_duplicate_backups(dir, today, failing) ==
    LET by_age == Range(ExpiredByAge(dir, today)) \ failing
        by_count == Range(ExcessByCount(dir, today)) \ failing
        errors == Attempted(dir, today) \cap failing
    IN  [dir |-> dir \ (by_age \cup by_count),
         by_age |-> by_age,
         by_count |-> by_count,
         messages |-> [i \in 1..Cardinality(errors) |-> "[ROTATION ERROR]"]]

\* The log_event argument finalize hands to the rotation: `lambda p, m: None`.
NullLogEvent(lg, messages) == lg

\* runtime.log_event: the messages reach the log writer of the run.
LogEvent(lg, messages) == lg \o messages

\* A variant of send_email whose handler logs the failure and raises it
\* again.
send_email_reraising(lg, delivered) ==
    [raised |-> ~delivered,
     log |-> IF delivered THEN lg ELSE LogEvent(lg, <<"[EMAIL ERROR]">>)]

\* send_email: a transport failure is caught and handed to log_event.
send_email(lg, delivered) ==
    [raised |-> FALSE,
     log |-> IF delivered THEN lg ELSE LogEvent(lg, <<"[EMAIL ERROR]">>)]

\* The day of the first run.
FirstDay == MAX_BACKUP_AGE_DAYS + MaxExpired + 1

\* Backup directories a run may find: empty, or holding a backup past the
\* age threshold, one within it and the files the rotation passes over.
InitialBackupDirs ==
    {{}, {BackupName(FirstDay - MAX_BACKUP_AGE_DAYS - 1), BackupName(FirstDay - 1)} \cup ForeignNames}

\* --------------------------------------------------------------- the state
VARIABLES
    pc,                       \* position in finalize
    transformed_rows,         \* argument: the accepted rows (or None)
    move_suffix,              \* argument: suffix of the processed source name
    normalized_suffix,        \* argument: suffix of the normalized name, or "None"
    temp_output_path,         \* context: path of the staged output, or ""
    exit_code,                \* argument: the outcome's exit status
    csv_locations,            \* where the source file exists
    output_locations,         \* where the normalized output exists
    live_index,               \* the file at DUPLICATE_INDEX_PATH
    snapshot_file,            \* the file at the run's snapshot path (backup dir)
    previous_file,            \* TEMP_DIR/previous-duplicate-index.csv
    updated_duplicate_index,  \* local: "None" or "path"
    previous_duplicate_index, \* local: "None" or "path"
    open_writers,             \* context: writers whose file is still open
    exit_calls,               \* number of calls of log_email_exit
    exit_status,              \* status passed to sys.exit (-1: not exited)
    trace,                    \* steps attempted so far, in order
    failed_step,              \* the critical step whose handler ran (0: none)
    absorbed,                 \* non-critical steps whose error was absorbed
    live_writes,              \* times the live index was opened for writing
    initial_index,            \* the live index file when finalize was entered
    comp_move,                \* result of the best-effort move to FAILED_DIR ("" before)
    cl_index,                 \* classify_duplicate: duplicate_index
    cl_key,                   \* classify_duplicate: key
    cl_row,                   \* classify_duplicate: row
    cl_required,              \* classify_duplicate: required field names
    cl_result,                \* classify_duplicate: returned value ("" before)
    run,                      \* number of the current run
    csv_rows,                 \* main: the rows loaded from the source file
    row_i,                    \* main: rows of the batch handled so far
    duplicate_index_mem,      \* main: duplicate_index, the in-memory index
    failed_any,               \* main: a row was diverted to a failure stream
    transformed_any,          \* main: a row was accepted
    temp_file,                \* main: the staged output file in TEMP_DIR
    outcome,                  \* main: the branch the run ended in ("" before)
    crashed,                  \* main: the run died of an uncaught exception
    classes,                  \* what happened to each row handled, in order
    committed,                \* rows accepted by earlier runs that ended well
    reported,                 \* <<outcome, status>> pairs reported by sys.exit
    mutators,                 \* <<code path, object>> pairs of durable changes
    backup_dir,               \* names of the files in BACKUP_DIR
    now,                      \* the day of the run (datetime.now())
    rotation_errors,          \* errors raised inside the rotation of this run
    deleted_by_age,           \* files the rotation removed as past the age threshold
    deleted_by_count,         \* files the rotation removed as beyond MAX_BACKUPS
    log,                      \* messages handed to the log writer of the run
    load_result,              \* main: what load_duplicate_index did in this run
    transform_failed_file,    \* main: the file of rows without a usable key
    duplicate_failed_file,    \* main: the file of rows in conflict with the index
    c_pc,                     \* concurrent runs: position of each run in finalize
    c_rows,                   \* concurrent runs: the accepted rows of each run
    c_snapshot,               \* concurrent runs: the snapshot file of each run
    c_seen,                   \* concurrent runs: whose commit had begun at a run's step 1
    c_opened,                 \* concurrent runs: the runs that have begun their commit
    c_status,                 \* concurrent runs: the exit status of each run (-1 before)
    d_index,                  \* runs on distinct indexes: the file at each run's DUPLICATE_INDEX_PATH
    d_before,                 \* runs on distinct indexes: that file when the run entered finalize
    d_staged,                 \* runs on distinct indexes: runs whose staged output is in TEMP_DIR
    d_normalized,             \* runs on distinct indexes: runs whose output is in NORMALIZED_DIR
    d_temp_dir,               \* runs on distinct indexes: TEMP_DIR exists
    d_rollback                \* runs on distinct indexes: how each run's rollback ended ("" before)

inputs == <<transformed_rows, move_suffix, normalized_suffix, temp_output_path, exit_code, initial_index>>

cl_vars == <<cl_index, cl_key, cl_row, cl_required, cl_result>>

dist_vars == <<d_index, d_before, d_staged, d_normalized, d_temp_dir, d_rollback>>

conc_vars == <<c_pc, c_rows, c_snapshot, c_seen, c_opened, c_status, dist_vars>>

rot_vars == <<backup_dir, now, rotation_errors, deleted_by_age, deleted_by_count>>

main_vars == <<csv_rows, row_i, duplicate_index_mem, failed_any, transformed_any, temp_file,
               outcome, crashed, classes, committed, reported, mutators, load_result,
               transform_failed_file, duplicate_failed_file>>

vars == <<pc, transformed_rows, move_suffix, normalized_suffix, temp_output_path, exit_code,
          csv_locations, output_locations, live_index, snapshot_file, previous_file,
          updated_duplicate_index, previous_duplicate_index, open_writers, exit_calls,
          exit_status, trace, failed_step, absorbed, live_writes, initial_index, comp_move,
          cl_index, cl_key, cl_row, cl_required, cl_result, run, csv_rows, row_i,
          duplicate_index_mem, failed_any, transformed_any, temp_file, outcome, crashed,
          classes,
          committed, reported, mutators, backup_dir, now, rotation_errors, deleted_by_age,
          deleted_by_count, log, load_result, transform_failed_file, duplicate_failed_file,
          c_pc, c_rows, c_snapshot, c_seen, c_opened, c_status,
          d_index, d_before, d_staged, d_normalized, d_temp_dir, d_rollback>>

\* ------------------------------------------------------ classify_duplicate
\* Field values are strings, modelled as sequences of characters so that
\* str.strip() is computed, not assumed.
Fields == {"amount", "memo"}

FieldValues(f) ==
    IF f = "amount" THEN {<<"1">>, <<" ", "1", " ">>, <<"2">>, <<" ">>}
    ELSE {<<"x">>, <<"y">>}

AllValues == UNION {FieldValues(f) : f \in Fields}

\* A row is a dict: a function from the field names it carries to values.
Rows == UNION {{r \in [D -> AllValues] : \A f \in D : r[f] \in FieldValues(f)} : D \in SUBSET Fields}

IsSpace(c) == c = " "

RECURSIVE StripLeft(_)
StripLeft(s) == IF Len(s) > 0 /\ IsSpace(Head(s)) THEN StripLeft(Tail(s)) ELSE s

RECURSIVE StripRight(_)
StripRight(s) ==
    IF Len(s) > 0 /\ IsSpace(s[Len(s)]) THEN StripRight(SubSeq(s, 1, Len(s) - 1)) ELSE s

\* str.strip()
Strip(s) == StripRight(StripLeft(s))

\* dict.get(field, "")
Get(row, field) == IF field \in DOMAIN row THEN row[field] ELSE <<>>

\* The inner loop comparing the first required field only.
RequiredMatch_firstFieldOnly(existing, row, required_fields, j) ==
    \/ Len(required_fields) = 0
    \/ Strip(Get(existing, required_fields[1])) = Strip(Get(row, required_fields[1]))

\* The inner loop of classify_duplicate: required_match after comparing the
\* fields from position j on, leaving the loop at the first difference.
RECURSIVE RequiredMatch(_, _, _, _)
RequiredMatch(existing, row, required_fields, j) ==
    IF j > Len(required_fields) THEN TRUE
    ELSE IF Strip(Get(existing, required_fields[j])) # Strip(Get(row, required_fields[j])) THEN FALSE
    ELSE RequiredMatch(existing, row, required_fields, j + 1)

\* The outer loop giving up after the first entry.
ClassifyLoop_firstOnly(existing_rows, row, required_fields, i) ==
    IF i > Len(existing_rows) THEN "conflict"
    ELSE IF RequiredMatch(existing_rows[i], row, required_fields, 1) THEN "identical"
    ELSE "conflict"

\* The outer loop of classify_duplicate over existing_rows from position i.
RECURSIVE ClassifyLoop(_, _, _, _)
ClassifyLoop(existing_rows, row, required_fields, i) ==
    IF i > Len(existing_rows) THEN "conflict"
    ELSE IF RequiredMatch(existing_rows[i], row, required_fields, 1) THEN "identical"
    ELSE ClassifyLoop(existing_rows, row, required_fields, i + 1)

\* duplicate_index.get(key, [])
ExistingRows(duplicate_index, key) ==
    IF key \in DOMAIN duplicate_index THEN duplicate_index[key] ELSE <<>>

\* classify_duplicate without the early return for a key with no entries.
classify_duplicate_noEarlyReturn(duplicate_index, key, row, required_fields) ==
    ClassifyLoop(ExistingRows(duplicate_index, key), row, required_fields, 1)

classify_duplicate(duplicate_index, key, row, required_fields) ==
    LET existing_rows == ExistingRows(duplicate_index, key)
    IN  IF Len(existing_rows) = 0 THEN "new"
        ELSE ClassifyLoop(existing_rows, row, required_fields, 1)

\* Inputs of the classification model.
Keys == {"REF1", "REF2", "REF3"}

OtherRow == [amount |-> <<"2">>, memo |-> <<"y">>]

SeqsUpTo(S, n) == UNION {[1..m -> S] : m \in 0..n}

\* An index with the entries es under REF1 (possibly the empty list a
\* defaultdict lookup leaves), one entry under REF2 and nothing under REF3;
\* and an index without REF1.
IndexInputs ==
    {[k \in {"REF1", "REF2"} |-> IF k = "REF1" THEN es ELSE <<OtherRow>>] : es \in SeqsUpTo(Rows, MaxEntries)}
    \cup {[k \in {"REF2"} |-> <<OtherRow>>]}

\* list(bank_config["columns"]["required"].keys())
RequiredInputs == {<<>>, <<"amount">>, <<"amount", "memo">>}

\* ---------------------------------------------------------------- finalize
\* Where control resumes after a step's handler, were log_email_exit to
\* return instead of leaving the process.
Resume(at) ==
    CASE at = "s1" -> "s2"
      [] at = "s2" -> "s3"
      [] at \in {"s3", "s3_open", "s3_write"} -> "s4"
      [] at \in {"s4", "s4_rb_open", "s4_rb_write", "s4_comp"} -> "s5"
      [] OTHER -> "done"

\* Continue with the next step: the labels are the steps just attempted.
Goto(labels, next) ==
    /\ pc' = next
    /\ trace' = trace \o labels
    /\ UNCHANGED <<exit_calls, exit_status, log>>

\* log_email_exit returning to its caller instead of leaving the process.
LogEmailExit_returns(labels, code) ==
    /\ pc' = Resume(pc)
    /\ trace' = trace \o labels \o <<"exit">>
    /\ exit_calls' = exit_calls + 1
    /\ exit_status' = code
    /\ \E delivered \in BOOLEAN :
          log' = send_email(LogEvent(log, <<"final">>), delivered).log

\* log_email_exit(context, exit_code, message): final log line, e-mail,
\* sys.exit(exit_code).  SystemExit is not an Exception, so no handler of
\* finalize catches it.  Were send_email to raise, the exception would leave
\* finalize before sys.exit is reached and end the process with status 1.
LogEmailExit(labels, code) ==
    /\ pc' = "done"
    /\ \E delivered \in BOOLEAN :
          LET sent == send_email(LogEvent(log, <<"final">>), delivered)
          IN  /\ log' = sent.log
              /\ IF sent.raised
                 THEN /\ trace' = trace \o labels
                      /\ exit_status' = 1
                      /\ UNCHANGED exit_calls
                 ELSE /\ trace' = trace \o labels \o <<"exit">>
                      /\ exit_calls' = exit_calls + 1
                      /\ exit_status' = code

\* 1. PREPARE DUPLICATE-INDEX UPDATE
Step1 ==
    /\ pc = "s1"
    /\ IF Truthy(transformed_rows)
       THEN \E r \in CreateUpdatedDuplicateIndex(live_index, snapshot_file, transformed_rows.rows) :
               /\ live_index' = r.live
               /\ live_writes' = IF r.live = live_index THEN live_writes ELSE live_writes + 1
               /\ snapshot_file' = r.snapshot
               /\ backup_dir' = IF r.snapshot.exists THEN backup_dir \cup {SnapshotName(now)}
                                ELSE backup_dir
               /\ IF r.raised
                  THEN /\ failed_step' = 1
                       /\ LogEmailExit(<<"s1">>, 97)
                       /\ UNCHANGED updated_duplicate_index
                  ELSE /\ updated_duplicate_index' = "path"
                       /\ Goto(<<"s1">>, "s2")
                       /\ UNCHANGED failed_step
       ELSE /\ Goto(<<"s1">>, "s2")
            /\ UNCHANGED <<live_index, live_writes, snapshot_file, updated_duplicate_index, failed_step,
                           backup_dir>>
    /\ UNCHANGED <<inputs, cl_vars, conc_vars, main_vars, run, now, rotation_errors, deleted_by_age,
                   deleted_by_count, comp_move, csv_locations, output_locations, previous_file,
                   previous_duplicate_index, open_writers, absorbed>>

\* Step 2 with a handler that reports without the move to FAILED_DIR.
Step2_noFallback ==
    /\ pc = "s2"
    /\ \E o \in MoveOutcomes :
          LET m == Move(csv_locations, Incoming, Processed(move_suffix), o)
          IN  /\ csv_locations' = m.locs
              /\ IF ~m.raised
                 THEN /\ Goto(<<"s2">>, "s3")
                      /\ UNCHANGED failed_step
                 ELSE /\ failed_step' = 2
                      /\ LogEmailExit(<<"s2">>, 94)
    /\ UNCHANGED <<inputs, cl_vars, conc_vars, main_vars, run, rot_vars, comp_move, output_locations, live_index, snapshot_file,
                   previous_file, updated_duplicate_index, previous_duplicate_index,
                   open_writers, absorbed, live_writes>>

\* Step 2 tried a second time when its first move fails.
Step2_retriesOnce ==
    /\ pc = "s2"
    /\ \E o \in MoveOutcomes :
          LET m == Move(csv_locations, Incoming, Processed(move_suffix), o)
          IN  IF ~m.raised
              THEN /\ csv_locations' = m.locs
                   /\ Goto(<<"s2">>, "s3")
                   /\ UNCHANGED <<failed_step, comp_move>>
              ELSE IF \A i \in DOMAIN trace : trace[i] # "s2"
              THEN /\ csv_locations' = m.locs
                   /\ Goto(<<"s2">>, "s2")
                   /\ UNCHANGED <<failed_step, comp_move>>
              ELSE \E o2 \in MoveOutcomes :
                      /\ csv_locations' = Move(m.locs, Incoming, Failed, o2).locs
                      /\ comp_move' = MoveResult(Move(m.locs, Incoming, Failed, o2))
                      /\ failed_step' = 2
                      /\ LogEmailExit(<<"s2", "s2_fallback">>, 94)
    /\ UNCHANGED <<inputs, cl_vars, conc_vars, main_vars, run, rot_vars, output_locations, live_index, snapshot_file, previous_file,
                   updated_duplicate_index, previous_duplicate_index, open_writers, absorbed,
                   live_writes>>

\* 2. MOVE ORIGINAL CSV, with the best-effort move to FAILED_DIR on failure
Step2 ==
    /\ pc = "s2"
    /\ \E o \in MoveOutcomes :
          LET m == Move(csv_locations, Incoming, Processed(move_suffix), o)
          IN  IF ~m.raised
              THEN /\ csv_locations' = m.locs
                   /\ Goto(<<"s2">>, "s3")
                   /\ UNCHANGED <<failed_step, comp_move>>
              ELSE \E o2 \in MoveOutcomes :
                      /\ csv_locations' = Move(m.locs, Incoming, Failed, o2).locs
                      /\ comp_move' = MoveResult(Move(m.locs, Incoming, Failed, o2))
                      /\ failed_step' = 2
                      /\ LogEmailExit(<<"s2", "s2_fallback">>, 94)
    /\ UNCHANGED <<inputs, cl_vars, conc_vars, main_vars, run, rot_vars, output_locations, live_index, snapshot_file, previous_file,
                   updated_duplicate_index, previous_duplicate_index, open_writers, absorbed,
                   live_writes>>

\* The handler of step 3: move the relocated source to FAILED_DIR (best
\* effort), then report status 93.
Step3Handler(labels) ==
    /\ \E o \in MoveOutcomes :
          /\ csv_locations' = Move(csv_locations, Processed(move_suffix), Failed, o).locs
          /\ comp_move' = MoveResult(Move(csv_locations, Processed(move_suffix), Failed, o))
    /\ failed_step' = 3
    /\ LogEmailExit(labels \o <<"s3_comp">>, 93)

\* A variant of step 3 that goes on to the commit when writing the restore
\* copy raised.
Step3_commitsWithoutAnchor ==
    /\ pc = "s3"
    /\ IF Truthy(transformed_rows)
       THEN /\ previous_duplicate_index' = "path"
            /\ \E r \in (IF live_index.exists THEN CopyResults(live_index, previous_file)
                         ELSE CreateEmptyResults(previous_file)) :
                  /\ previous_file' = r.file
                  /\ Goto(<<"s3">>, "s3_open")
                  /\ UNCHANGED <<csv_locations, failed_step, comp_move>>
       ELSE /\ Goto(<<"s3">>, "s4")
            /\ UNCHANGED <<previous_duplicate_index, previous_file, csv_locations, failed_step, comp_move>>
    /\ UNCHANGED <<inputs, cl_vars, conc_vars, main_vars, run, rot_vars, output_locations, live_index, snapshot_file,
                   updated_duplicate_index, open_writers, absorbed, live_writes>>

\* 3. COMMIT DUPLICATE-INDEX, first part: the restore copy in TEMP_DIR
Step3 ==
    /\ pc = "s3"
    /\ IF Truthy(transformed_rows)
       THEN /\ previous_duplicate_index' = "path"
            /\ \E r \in (IF live_index.exists THEN CopyResults(live_index, previous_file)
                         ELSE CreateEmptyResults(previous_file)) :
                  /\ previous_file' = r.file
                  /\ IF r.raised
                     THEN Step3Handler(<<"s3">>)
                     ELSE /\ Goto(<<"s3">>, "s3_open")
                          /\ UNCHANGED <<csv_locations, failed_step, comp_move>>
       ELSE /\ Goto(<<"s3">>, "s4")
            /\ UNCHANGED <<previous_duplicate_index, previous_file, csv_locations, failed_step, comp_move>>
    /\ UNCHANGED <<inputs, cl_vars, conc_vars, main_vars, run, rot_vars, output_locations, live_index, snapshot_file,
                   updated_duplicate_index, open_writers, absorbed, live_writes>>

\* 3, second part: shutil.copyfile(updated_duplicate_index, DUPLICATE_INDEX_PATH)
\* opens the source, then opens the live index for writing (truncating it).
Step3Open ==
    /\ pc = "s3_open"
    /\ \/ /\ Step3Handler(<<>>)
          /\ UNCHANGED <<live_index, live_writes>>
       \/ /\ updated_duplicate_index = "path"
          /\ snapshot_file.exists
          /\ live_index' = FileOf(<<>>)
          /\ live_writes' = live_writes + 1
          /\ Goto(<<>>, IF Len(snapshot_file.lines) = 0 THEN "s4" ELSE "s3_write")
          /\ UNCHANGED <<csv_locations, failed_step, comp_move>>
    /\ UNCHANGED <<inputs, cl_vars, conc_vars, main_vars, run, rot_vars, output_locations, snapshot_file, previous_file,
                   updated_duplicate_index, previous_duplicate_index, open_writers, absorbed>>

\* 3, third part: copyfile writes the snapshot into the live index.
Step3Write ==
    /\ pc = "s3_write"
    /\ \/ /\ Step3Handler(<<>>)
          /\ UNCHANGED live_index
       \/ /\ live_index' = FileOf(Prefix(snapshot_file.lines, Len(live_index.lines) + 1))
          /\ Goto(<<>>, IF Len(live_index.lines) + 1 = Len(snapshot_file.lines) THEN "s4" ELSE "s3_write")
          /\ UNCHANGED <<csv_locations, failed_step, comp_move>>
    /\ UNCHANGED <<inputs, cl_vars, conc_vars, main_vars, run, rot_vars, output_locations, snapshot_file, previous_file,
                   updated_duplicate_index, previous_duplicate_index, open_writers, absorbed,
                   live_writes>>

\* 4. MOVE NORMALIZED OUTPUT; on failure the handler starts with the rollback
Step4 ==
    /\ pc = "s4"
    /\ IF normalized_suffix # "None" /\ temp_output_path # ""
       THEN \E o \in MoveOutcomes :
               LET m == Move(output_locations, TempOutput, Normalized(normalized_suffix), o)
               IN  /\ output_locations' = m.locs
                   /\ IF ~m.raised
                      THEN /\ Goto(<<"s4">>, "s5")
                           /\ UNCHANGED failed_step
                      ELSE /\ failed_step' = 4
                           /\ Goto(<<"s4">>, IF previous_duplicate_index # "None"
                                             THEN "s4_rb_open" ELSE "s4_comp")
       ELSE /\ Goto(<<"s4">>, "s5")
            /\ UNCHANGED <<output_locations, failed_step>>
    /\ UNCHANGED <<inputs, cl_vars, conc_vars, main_vars, run, rot_vars, comp_move, csv_locations, live_index, snapshot_file, previous_file,
                   updated_duplicate_index, previous_duplicate_index, open_writers, absorbed,
                   live_writes>>

\* 4, rollback: shutil.copyfile(previous_duplicate_index, DUPLICATE_INDEX_PATH);
\* any exception is swallowed.
Step4RollbackOpen ==
    /\ pc = "s4_rb_open"
    /\ \/ /\ Goto(<<"s4_rollback">>, "s4_comp")
          /\ UNCHANGED <<live_index, live_writes>>
       \/ /\ previous_file.exists
          /\ live_index' = FileOf(<<>>)
          /\ live_writes' = live_writes + 1
          /\ Goto(<<"s4_rollback">>, IF Len(previous_file.lines) = 0 THEN "s4_comp" ELSE "s4_rb_write")
    /\ UNCHANGED <<inputs, cl_vars, conc_vars, main_vars, run, rot_vars, comp_move, csv_locations, output_locations, snapshot_file, previous_file,
                   updated_duplicate_index, previous_duplicate_index, open_writers, absorbed,
                   failed_step>>

Step4RollbackWrite ==
    /\ pc = "s4_rb_write"
    /\ \/ /\ Goto(<<>>, "s4_comp")
          /\ UNCHANGED live_index
       \/ /\ live_index' = FileOf(Prefix(previous_file.lines, Len(live_index.lines) + 1))
          /\ Goto(<<>>, IF Len(live_index.lines) + 1 = Len(previous_file.lines)
                        THEN "s4_comp" ELSE "s4_rb_write")
    /\ UNCHANGED <<inputs, cl_vars, conc_vars, main_vars, run, rot_vars, comp_move, csv_locations, output_locations, snapshot_file, previous_file,
                   updated_duplicate_index, previous_duplicate_index, open_writers, absorbed,
                   failed_step, live_writes>>

\* A variant of the handler of step 4 that removes TEMP_DIR before it
\* reports.
Step4Compensate_cleansTemp ==
    /\ pc = "s4_comp"
    /\ \E o \in MoveOutcomes :
          /\ csv_locations' = Move(csv_locations, Processed(move_suffix), Failed, o).locs
          /\ comp_move' = MoveResult(Move(csv_locations, Processed(move_suffix), Failed, o))
    /\ previous_file' = NoFile
    /\ output_locations' = output_locations \ {TempOutput}
    /\ LogEmailExit(<<"s4_comp">>, 92)
    /\ UNCHANGED <<inputs, cl_vars, conc_vars, main_vars, run, rot_vars, live_index, snapshot_file,
                   updated_duplicate_index, previous_duplicate_index, open_writers, absorbed,
                   failed_step, live_writes>>

\* 4, rest of the handler: move the relocated source to FAILED_DIR (best
\* effort), then report status 92.
Step4Compensate ==
    /\ pc = "s4_comp"
    /\ \E o \in MoveOutcomes :
          /\ csv_locations' = Move(csv_locations, Processed(move_suffix), Failed, o).locs
          /\ comp_move' = MoveResult(Move(csv_locations, Processed(move_suffix), Failed, o))
    /\ LogEmailExit(<<"s4_comp">>, 92)
    /\ UNCHANGED <<inputs, cl_vars, conc_vars, main_vars, run, rot_vars, output_locations, live_index, snapshot_file, previous_file,
                   updated_duplicate_index, previous_duplicate_index, open_writers, absorbed,
                   failed_step, live_writes>>

\* 5. ROTATION: rotate_duplicate_backups absorbs its own errors, handing
\* each to the log_event argument, and finalize absorbs whatever it raises.
\* Either listing the directory raises, or each file is removed or not.
Step5 ==
    /\ pc = "s5"
    /\ \/ /\ rotation_errors' = 1
          /\ log' = NullLogEvent(log, <<"[ROTATION ERROR]">>)
          /\ UNCHANGED <<backup_dir, deleted_by_age, deleted_by_count>>
       \/ \E failing \in SUBSET Attempted(backup_dir, now) :
             LET r == rotate_duplicate_backups(backup_dir, now, failing)
             IN  /\ backup_dir' = r.dir
                 /\ deleted_by_age' = r.by_age
                 /\ deleted_by_count' = r.by_count
                 /\ rotation_errors' = Len(r.messages)
                 /\ log' = NullLogEvent(log, r.messages)
    /\ absorbed' = IF rotation_errors' > 0 THEN absorbed \cup {5} ELSE absorbed
    /\ pc' = "s6"
    /\ trace' = trace \o <<"s5">>
    /\ UNCHANGED <<inputs, cl_vars, conc_vars, main_vars, run, now, exit_calls, exit_status, comp_move, csv_locations, output_locations, live_index, snapshot_file,
                   previous_file, updated_duplicate_index, previous_duplicate_index,
                   open_writers, failed_step, live_writes>>

\* A variant of step 6 in which a close that raises is not caught: the
\* exception leaves finalize and ends the process with status 1.
Step6_propagates ==
    /\ pc = "s6"
    /\ \E failing \in SUBSET open_writers :
          /\ open_writers' = failing
          /\ absorbed' = IF failing = {} THEN absorbed ELSE absorbed \cup {6}
          /\ IF failing = {}
             THEN Goto(<<"s6">>, "s7")
             ELSE /\ pc' = "done"
                  /\ trace' = trace \o <<"s6">>
                  /\ exit_status' = 1
                  /\ UNCHANGED <<exit_calls, log>>
    /\ UNCHANGED <<inputs, cl_vars, conc_vars, main_vars, run, rot_vars, comp_move, csv_locations, output_locations, live_index, snapshot_file,
                   previous_file, updated_duplicate_index, previous_duplicate_index,
                   failed_step, live_writes>>

\* 6. CLOSE WRITERS: close_open_writers; a close that raises is passed over
Step6 ==
    /\ pc = "s6"
    /\ \E failing \in SUBSET open_writers :
          /\ open_writers' = failing
          /\ absorbed' = IF failing = {} THEN absorbed ELSE absorbed \cup {6}
    /\ Goto(<<"s6">>, "s7")
    /\ UNCHANGED <<inputs, cl_vars, conc_vars, main_vars, run, rot_vars, comp_move, csv_locations, output_locations, live_index, snapshot_file,
                   previous_file, updated_duplicate_index, previous_duplicate_index,
                   failed_step, live_writes>>

\* 7. CLEANUP TEMP: shutil.rmtree(TEMP_DIR, ignore_errors=True)
Step7 ==
    /\ pc = "s7"
    /\ \E ok \in BOOLEAN :
          IF ok
          THEN /\ previous_file' = NoFile
               /\ output_locations' = output_locations \ {TempOutput}
               /\ UNCHANGED absorbed
          ELSE /\ absorbed' = absorbed \cup {7}
               /\ UNCHANGED <<previous_file, output_locations>>
    /\ Goto(<<"s7">>, "s8")
    /\ UNCHANGED <<inputs, cl_vars, conc_vars, main_vars, run, rot_vars, comp_move, csv_locations, live_index, snapshot_file,
                   updated_duplicate_index, previous_duplicate_index, open_writers,
                   failed_step, live_writes>>

\* 8. FINAL LOG + EMAIL + EXIT
Step8 ==
    /\ pc = "s8"
    /\ LogEmailExit(<<>>, exit_code)
    /\ UNCHANGED <<inputs, cl_vars, conc_vars, main_vars, run, rot_vars, comp_move, csv_locations, output_locations, live_index, snapshot_file,
                   previous_file, updated_duplicate_index, previous_duplicate_index,
                   open_writers, absorbed, failed_step, live_writes>>

\* classify_duplicate is not called in the finalize model.
NoClassification ==
    /\ cl_index = [k \in {"REF2"} |-> <<OtherRow>>]
    /\ cl_key = "REF3"
    /\ cl_row = OtherRow
    /\ cl_required = <<>>
    /\ cl_result = ""

\* Before load_duplicate_index is called.
NotLoaded == [called |-> FALSE, raised |-> FALSE, index |-> <<>>, file |-> NoFile]

\* main (process_csv.py) is not running in this model.
NoMain ==
    /\ csv_rows = <<>>
    /\ row_i = 0
    /\ duplicate_index_mem = <<>>
    /\ failed_any = FALSE
    /\ transformed_any = FALSE
    /\ temp_file = NoFile
    /\ outcome = ""
    /\ crashed = FALSE
    /\ classes = <<>>
    /\ committed = {}
    /\ reported = {}
    /\ mutators = {}
    /\ load_result = NotLoaded
    /\ transform_failed_file = NoFile
    /\ duplicate_failed_file = NoFile

\* The runs finalize is called in, when two run at once.
Procs == {1, 2}

\* No runs on distinct index files are in finalize.
NoDistinctRuns ==
    /\ d_index = [p \in Procs |-> NoFile]
    /\ d_before = [p \in Procs |-> NoFile]
    /\ d_staged = {}
    /\ d_normalized = {}
    /\ d_temp_dir = TRUE
    /\ d_rollback = [p \in Procs |-> ""]

\* One run at a time: no second run is in finalize.
NoConcurrency ==
    /\ NoDistinctRuns
    /\ c_pc = [p \in Procs |-> "idle"]
    /\ c_rows = [p \in Procs |-> <<>>]
    /\ c_snapshot = [p \in Procs |-> NoFile]
    /\ c_seen = [p \in Procs |-> {}]
    /\ c_opened = {}
    /\ c_status = [p \in Procs |-> -1]

\* No rotation has run yet.
NoRotation ==
    /\ now = FirstDay
    /\ rotation_errors = 0
    /\ deleted_by_age = {}
    /\ deleted_by_count = {}

\* The state when finalize is entered.
Init ==
    /\ pc = "s1"
    /\ transformed_rows \in TransformedRowsInputs
    /\ move_suffix \in {".csv", "-partial.csv", "-failed.csv"}
    /\ normalized_suffix \in {"None", ".csv", "-partial.csv"}
    /\ temp_output_path \in {"", "tmp"}
    /\ exit_code \in {0, 100, 101}
    /\ csv_locations = {Incoming}
    /\ output_locations = IF temp_output_path = "" THEN {} ELSE {TempOutput}
    /\ live_index \in InitialIndexFiles
    /\ initial_index = live_index
    /\ snapshot_file = NoFile
    /\ previous_file = NoFile
    /\ updated_duplicate_index = "None"
    /\ previous_duplicate_index = "None"
    /\ open_writers \in SUBSET {"normalized"}
    /\ exit_calls = 0
    /\ exit_status = -1
    /\ trace = <<>>
    /\ failed_step = 0
    /\ absorbed = {}
    /\ live_writes = 0
    /\ comp_move = ""
    /\ run = 1
    /\ backup_dir \in InitialBackupDirs
    /\ NoRotation
    /\ NoConcurrency
    /\ log = <<>>
    /\ NoClassification
    /\ NoMain

Next ==
    \/ Step1
    \/ Step2
    \/ Step3
    \/ Step3Open
    \/ Step3Write
    \/ Step4
    \/ Step4RollbackOpen
    \/ Step4RollbackWrite
    \/ Step4Compensate
    \/ Step5
    \/ Step6
    \/ Step7
    \/ Step8

Spec == Init /\ [][Next]_vars

\* ---------------------------------------------------- a sequence of runs
\* Most runs in a sequence.
MaxRuns == 2

\* The first run of a sequence: no duplicate index exists yet.
InitRuns ==
    /\ Init
    /\ live_index = NoFile
    /\ backup_dir = {}
    /\ move_suffix = ".csv"
    /\ normalized_suffix \in {"None", ".csv"}
    /\ temp_output_path = "tmp"
    /\ exit_code = 0
    /\ open_writers = {}

\* A later run enters finalize: new arguments and a new source file; the
\* live index and TEMP_DIR are as the last run left them, and the snapshot
\* path of the run (named after its timestamp) is a new one.
NextRun ==
    /\ pc = "done"
    /\ run < MaxRuns
    /\ run' = run + 1
    /\ pc' = "s1"
    /\ transformed_rows' \in TransformedRowsInputs
    /\ normalized_suffix' \in {"None", ".csv"}
    /\ csv_locations' = {Incoming}
    /\ output_locations' = {TempOutput}
    /\ initial_index' = live_index
    /\ snapshot_file' = NoFile
    /\ updated_duplicate_index' = "None"
    /\ previous_duplicate_index' = "None"
    /\ exit_calls' = 0
    /\ exit_status' = -1
    /\ trace' = <<>>
    /\ failed_step' = 0
    /\ absorbed' = {}
    /\ live_writes' = 0
    /\ comp_move' = ""
    /\ now' \in {now + 1, now + MAX_BACKUP_AGE_DAYS + 1}
    /\ rotation_errors' = 0
    /\ deleted_by_age' = {}
    /\ deleted_by_count' = {}
    /\ log' = <<>>
    /\ UNCHANGED <<move_suffix, temp_output_path, exit_code, live_index, previous_file,
                   open_writers, backup_dir, cl_vars, conc_vars, main_vars>>

NextRuns == Next \/ NextRun

SpecRuns == InitRuns /\ [][NextRuns]_vars

\* ------------------------------------------- the classification model
\* finalize is not running in the classification model.
NoFinalize ==
    /\ pc = "idle"
    /\ transformed_rows = [isNone |-> TRUE, rows |-> <<>>]
    /\ move_suffix = ".csv"
    /\ normalized_suffix = "None"
    /\ temp_output_path = ""
    /\ exit_code = 0
    /\ csv_locations = {Incoming}
    /\ output_locations = {}
    /\ live_index = NoFile
    /\ initial_index = NoFile
    /\ snapshot_file = NoFile
    /\ previous_file = NoFile
    /\ updated_duplicate_index = "None"
    /\ previous_duplicate_index = "None"
    /\ open_writers = {}
    /\ exit_calls = 0
    /\ exit_status = -1
    /\ trace = <<>>
    /\ failed_step = 0
    /\ absorbed = {}
    /\ live_writes = 0
    /\ comp_move = ""
    /\ run = 1
    /\ log = <<>>
    /\ NoRotation
    /\ NoConcurrency

InitClassify ==
    /\ NoFinalize
    /\ backup_dir = {}
    /\ NoMain
    /\ cl_index \in IndexInputs
    /\ cl_key \in Keys
    /\ cl_row \in Rows
    /\ cl_required \in RequiredInputs
    /\ cl_result = ""

Classify ==
    /\ pc = "idle"
    /\ cl_result = ""
    /\ cl_result' = classify_duplicate(cl_index, cl_key, cl_row, cl_required)
    /\ UNCHANGED <<cl_index, cl_key, cl_row, cl_required>>
    /\ UNCHANGED <<pc, transformed_rows, move_suffix, normalized_suffix, temp_output_path,
                   exit_code, csv_locations, output_locations, live_index, snapshot_file,
                   previous_file, updated_duplicate_index, previous_duplicate_index,
                   open_writers, exit_calls, exit_status, trace, failed_step, absorbed,
                   live_writes, initial_index, comp_move, main_vars, run, rot_vars, log,
                   conc_vars>>

NextClassify == Classify

SpecClassify == InitClassify /\ [][NextClassify]_vars

\* ------------------------------------------------ the rotation on its own
\* Directories handed to the rotation: `expired` backups past the age
\* threshold, `recent` ones within it (the oldest of them exactly at the
\* threshold), and any of the files the rotation passes over.
BackupDirInputs ==
    {{BackupName(FirstDay - MAX_BACKUP_AGE_DAYS - i) : i \in 1..expired}
     \cup {BackupName(FirstDay - MAX_BACKUP_AGE_DAYS + i - 1) : i \in 1..recent}
     \cup foreign :
        expired \in 0..MaxExpired,
        recent \in {0, 1} \cup ((MAX_BACKUPS - 1)..(MAX_BACKUPS + MaxExcess)),
        foreign \in SUBSET (ForeignNames \cup {SnapshotName(FirstDay - MAX_BACKUP_AGE_DAYS - 1)})}

InitRotate ==
    /\ NoFinalize
    /\ NoClassification
    /\ NoMain
    /\ backup_dir \in BackupDirInputs

\* rotate_duplicate_backups(backup_dir, log_event, logfile_path) called with
\* the log_event of the run.
Rotate ==
    /\ pc = "idle"
    /\ pc' = "rotated"
    /\ \/ /\ rotation_errors' = 1
          /\ log' = LogEvent(log, <<"[ROTATION ERROR]">>)
          /\ UNCHANGED <<backup_dir, deleted_by_age, deleted_by_count>>
       \/ \E failing \in SUBSET Attempted(backup_dir, now) :
             LET r == rotate_duplicate_backups(backup_dir, now, failing)
             IN  /\ backup_dir' = r.dir
                 /\ deleted_by_age' = r.by_age
                 /\ deleted_by_count' = r.by_count
                 /\ rotation_errors' = Len(r.messages)
                 /\ log' = LogEvent(log, r.messages)
    /\ UNCHANGED <<transformed_rows, move_suffix, normalized_suffix, temp_output_path,
                   exit_code, csv_locations, output_locations, live_index, snapshot_file,
                   previous_file, updated_duplicate_index, previous_duplicate_index,
                   open_writers, exit_calls, exit_status, trace, failed_step, absorbed,
                   live_writes, initial_index, comp_move, cl_vars, conc_vars, main_vars, run, now>>

NextRotate == Rotate

SpecRotate == InitRotate /\ [][NextRotate]_vars

\* ------------------------------------ two runs in finalize at the same time
\* Two processes run finalize against the same DUPLICATE_INDEX_PATH and the
\* same TEMP_DIR, each with its own source file, accepted rows and snapshot
\* path.  A run that reports success has had no critical step fail, so the
\* steps here are the successful ones, interleaved in every way; steps 4 to
\* 8 touch nothing the runs share but TEMP_DIR and are taken as one.
RunRows(p, n) == [i \in 1..n |-> <<"run", p, i>>]

\* A variant of the write in which the data lands after what the file holds.
WriteAtStart_appending(existing, content) == existing \o content

\* A write of `content` at offset 0 of a file holding `existing`: what lies
\* beyond the written part stays.
WriteAtStart(existing, content) ==
    content \o SubSeq(existing, Len(content) + 1, Len(existing))

InitConcurrent ==
    /\ pc = "concurrent"
    /\ c_pc = [p \in Procs |-> "s1"]
    /\ c_rows \in {f \in [Procs -> UNION {{RunRows(p, n) : n \in 1..MaxNew} : p \in Procs}] :
                      \A p \in Procs : \E n \in 1..MaxNew : f[p] = RunRows(p, n)}
    /\ c_snapshot = [p \in Procs |-> NoFile]
    /\ c_seen = [p \in Procs |-> {}]
    /\ c_opened = {}
    /\ c_status = [p \in Procs |-> -1]
    /\ NoDistinctRuns
    /\ live_index \in InitialIndexFiles
    /\ initial_index = live_index
    /\ previous_file = NoFile
    /\ transformed_rows = [isNone |-> TRUE, rows |-> <<>>]
    /\ move_suffix = ".csv"
    /\ normalized_suffix = ".csv"
    /\ temp_output_path = "tmp"
    /\ exit_code = 0
    /\ csv_locations = {Incoming}
    /\ output_locations = {TempOutput}
    /\ snapshot_file = NoFile
    /\ updated_duplicate_index = "None"
    /\ previous_duplicate_index = "None"
    /\ open_writers = {}
    /\ exit_calls = 0
    /\ exit_status = -1
    /\ trace = <<>>
    /\ failed_step = 0
    /\ absorbed = {}
    /\ live_writes = 0
    /\ comp_move = ""
    /\ run = 1
    /\ backup_dir = {}
    /\ NoRotation
    /\ log = <<>>
    /\ NoClassification
    /\ NoMain

\* The variables of a single run outside the concurrent models.
single_run_core == <<pc, transformed_rows, move_suffix, normalized_suffix, temp_output_path,
                     exit_code, csv_locations, output_locations, snapshot_file,
                     updated_duplicate_index, previous_duplicate_index, open_writers,
                     exit_calls, exit_status, trace, failed_step, absorbed, live_writes,
                     initial_index, comp_move, run, cl_vars, main_vars, rot_vars, log>>

\* What the concurrent steps leave alone.
single_run == <<single_run_core, dist_vars>>

\* Step 1 of run p: create_updated_duplicate_index copies the live index as
\* it is now and appends the rows of the run.
ConcStep1(p) ==
    /\ c_pc[p] = "s1"
    /\ \E r \in CreateUpdatedDuplicateIndex(live_index, NoFile, c_rows[p]) :
          /\ ~r.raised
          /\ c_snapshot' = [c_snapshot EXCEPT ![p] = r.snapshot]
    /\ c_seen' = [c_seen EXCEPT ![p] = c_opened]
    /\ c_pc' = [c_pc EXCEPT ![p] = "s2"]
    /\ UNCHANGED <<live_index, previous_file, c_rows, c_opened, c_status, single_run>>

\* Step 2 of run p: its own source file is moved.
ConcStep2(p) ==
    /\ c_pc[p] = "s2"
    /\ c_pc' = [c_pc EXCEPT ![p] = "s3"]
    /\ UNCHANGED <<live_index, previous_file, c_rows, c_snapshot, c_seen, c_opened,
                   c_status, single_run>>

\* Step 3 of run p, first part: the restore copy at its fixed path in
\* TEMP_DIR.
ConcStep3(p) ==
    /\ c_pc[p] = "s3"
    /\ previous_file' = FileOf(live_index.lines)
    /\ c_pc' = [c_pc EXCEPT ![p] = "s3_open"]
    /\ UNCHANGED <<live_index, c_rows, c_snapshot, c_seen, c_opened, c_status, single_run>>

\* Step 3, second part: copyfile opens the live index for writing.
ConcStep3Open(p) ==
    /\ c_pc[p] = "s3_open"
    /\ live_index' = FileOf(<<>>)
    /\ c_opened' = c_opened \cup {p}
    /\ c_pc' = [c_pc EXCEPT ![p] = "s3_write"]
    /\ UNCHANGED <<previous_file, c_rows, c_snapshot, c_seen, c_status, single_run>>

\* Step 3, third part: copyfile writes the snapshot of run p from the start
\* of the file.
ConcStep3Write(p) ==
    /\ c_pc[p] = "s3_write"
    /\ live_index' = FileOf(WriteAtStart(live_index.lines, c_snapshot[p].lines))
    /\ c_pc' = [c_pc EXCEPT ![p] = "s4"]
    /\ UNCHANGED <<previous_file, c_rows, c_snapshot, c_seen, c_opened, c_status, single_run>>

\* Steps 4 to 8 of run p: its output is moved, TEMP_DIR is removed and the
\* run exits with the status of its outcome.
ConcFinish(p) ==
    /\ c_pc[p] = "s4"
    /\ previous_file' = NoFile
    /\ c_status' = [c_status EXCEPT ![p] = exit_code]
    /\ c_pc' = [c_pc EXCEPT ![p] = "done"]
    /\ UNCHANGED <<live_index, c_rows, c_snapshot, c_seen, c_opened, single_run>>

NextConcurrent ==
    \E p \in Procs :
       \/ ConcStep1(p)
       \/ ConcStep2(p)
       \/ ConcStep3(p)
       \/ ConcStep3Open(p)
       \/ ConcStep3Write(p)
       \/ ConcFinish(p)

SpecConcurrent == InitConcurrent /\ [][NextConcurrent]_vars

\* ------------------------- two runs in finalize on distinct index files
\* Two processes run finalize at the same time, each with its own
\* DUPLICATE_INDEX_PATH, source file, accepted rows, snapshot path and staged
\* output, under the same data directory: build_paths gives both the same
\* TEMP_DIR and the same restore-copy path in it.  A step fails here only
\* when a file or directory it needs is missing.
InitDistinct ==
    /\ pc = "distinct"
    /\ c_pc = [p \in Procs |-> "s1"]
    /\ c_rows \in {f \in [Procs -> UNION {{RunRows(p, n) : n \in 1..MaxNew} : p \in Procs}] :
                      \A p \in Procs : \E n \in 1..MaxNew : f[p] = RunRows(p, n)}
    /\ c_snapshot = [p \in Procs |-> NoFile]
    /\ c_seen = [p \in Procs |-> {}]
    /\ c_opened = {}
    /\ c_status = [p \in Procs |-> -1]
    /\ d_index \in [Procs -> InitialIndexFiles]
    /\ d_before = d_index
    /\ d_staged = Procs
    /\ d_normalized = {}
    /\ d_temp_dir = TRUE
    /\ d_rollback = [p \in Procs |-> ""]
    /\ live_index = NoFile
    /\ initial_index = live_index
    /\ previous_file = NoFile
    /\ transformed_rows = [isNone |-> TRUE, rows |-> <<>>]
    /\ move_suffix = ".csv"
    /\ normalized_suffix = ".csv"
    /\ temp_output_path = "tmp"
    /\ exit_code = 0
    /\ csv_locations = {Incoming}
    /\ output_locations = {TempOutput}
    /\ snapshot_file = NoFile
    /\ updated_duplicate_index = "None"
    /\ previous_duplicate_index = "None"
    /\ open_writers = {}
    /\ exit_calls = 0
    /\ exit_status = -1
    /\ trace = <<>>
    /\ failed_step = 0
    /\ absorbed = {}
    /\ live_writes = 0
    /\ comp_move = ""
    /\ run = 1
    /\ backup_dir = {}
    /\ NoRotation
    /\ log = <<>>
    /\ NoClassification
    /\ NoMain

\* What the steps of these runs leave alone.
shared_index == <<live_index, c_seen, c_opened, single_run_core>>

\* Step 1 of run p: the snapshot of its own index with its rows appended.
DistStep1(p) ==
    /\ c_pc[p] = "s1"
    /\ \E r \in CreateUpdatedDuplicateIndex(d_index[p], NoFile, c_rows[p]) :
          /\ ~r.raised
          /\ c_snapshot' = [c_snapshot EXCEPT ![p] = r.snapshot]
    /\ c_pc' = [c_pc EXCEPT ![p] = "s2"]
    /\ UNCHANGED <<previous_file, c_rows, c_status, dist_vars, shared_index>>

\* Step 2 of run p: its own source file is moved.
DistStep2(p) ==
    /\ c_pc[p] = "s2"
    /\ c_pc' = [c_pc EXCEPT ![p] = "s3"]
    /\ UNCHANGED <<previous_file, c_rows, c_snapshot, c_status, dist_vars, shared_index>>

\* Step 3 of run p, first part: the restore copy of its index at the fixed
\* path in TEMP_DIR; without the directory the copy (or open) raises and the
\* handler reports status 93.
DistStep3(p) ==
    /\ c_pc[p] = "s3"
    /\ IF d_temp_dir
       THEN /\ previous_file' = FileOf(d_index[p].lines)
            /\ c_pc' = [c_pc EXCEPT ![p] = "s3_commit"]
            /\ UNCHANGED c_status
       ELSE /\ c_status' = [c_status EXCEPT ![p] = 93]
            /\ c_pc' = [c_pc EXCEPT ![p] = "done"]
            /\ UNCHANGED previous_file
    /\ UNCHANGED <<c_rows, c_snapshot, dist_vars, shared_index>>

\* Step 3, second part: copyfile of the snapshot over the run's own index.
DistStep3Commit(p) ==
    /\ c_pc[p] = "s3_commit"
    /\ d_index' = [d_index EXCEPT ![p] = FileOf(c_snapshot[p].lines)]
    /\ c_pc' = [c_pc EXCEPT ![p] = "s4"]
    /\ UNCHANGED <<previous_file, c_rows, c_snapshot, c_status, d_before, d_staged,
                   d_normalized, d_temp_dir, d_rollback, shared_index>>

\* Step 4 of run p: shutil.move of its staged output; with the staged file
\* gone the move raises and the handler starts.
DistStep4(p) ==
    /\ c_pc[p] = "s4"
    /\ IF p \in d_staged
       THEN /\ d_staged' = d_staged \ {p}
            /\ d_normalized' = d_normalized \cup {p}
            /\ c_pc' = [c_pc EXCEPT ![p] = "s5"]
       ELSE /\ c_pc' = [c_pc EXCEPT ![p] = "s4_rollback"]
            /\ UNCHANGED <<d_staged, d_normalized>>
    /\ UNCHANGED <<previous_file, c_rows, c_snapshot, c_status, d_index, d_before,
                   d_temp_dir, d_rollback, shared_index>>

\* The handler of step 4: copyfile of whatever is at the restore-copy path
\* over the run's index, any exception swallowed, then status 92.
DistRollback(p) ==
    /\ c_pc[p] = "s4_rollback"
    /\ IF previous_file.exists
       THEN /\ d_index' = [d_index EXCEPT ![p] = FileOf(previous_file.lines)]
            /\ d_rollback' = [d_rollback EXCEPT ![p] = "ok"]
       ELSE /\ d_rollback' = [d_rollback EXCEPT ![p] = "raised"]
            /\ UNCHANGED d_index
    /\ c_status' = [c_status EXCEPT ![p] = 92]
    /\ c_pc' = [c_pc EXCEPT ![p] = "done"]
    /\ UNCHANGED <<previous_file, c_rows, c_snapshot, d_before, d_staged, d_normalized,
                   d_temp_dir, shared_index>>

\* Steps 5 to 7 of run p: shutil.rmtree(TEMP_DIR, ignore_errors=True)
\* removes the directory with all it holds, or fails and is passed over.
DistStep7(p) ==
    /\ c_pc[p] = "s5"
    /\ \E ok \in BOOLEAN :
          IF ok
          THEN /\ previous_file' = NoFile
               /\ d_staged' = {}
               /\ d_temp_dir' = FALSE
          ELSE UNCHANGED <<previous_file, d_staged, d_temp_dir>>
    /\ c_pc' = [c_pc EXCEPT ![p] = "s8"]
    /\ UNCHANGED <<c_rows, c_snapshot, c_status, d_index, d_before, d_normalized,
                   d_rollback, shared_index>>

\* Step 8 of run p: the exit with the status of the outcome.
DistStep8(p) ==
    /\ c_pc[p] = "s8"
    /\ c_status' = [c_status EXCEPT ![p] = exit_code]
    /\ c_pc' = [c_pc EXCEPT ![p] = "done"]
    /\ UNCHANGED <<previous_file, c_rows, c_snapshot, dist_vars, shared_index>>

NextDistinct ==
    \E p \in Procs :
       \/ DistStep1(p)
       \/ DistStep2(p)
       \/ DistStep3(p)
       \/ DistStep3Commit(p)
       \/ DistStep4(p)
       \/ DistRollback(p)
       \/ DistStep7(p)
       \/ DistStep8(p)

SpecDistinct == InitDistinct /\ [][NextDistinct]_vars

\* ------------------------------------------------- main (process_csv.py)
\* Most rows in a source file.
MaxBatch == 2

\* In the model of main a string is a sequence of tokens (a token is one
\* character, or a whole column name), so that str.strip() is computed and
\* a value read where a header was expected can serve as a column name.
BANKREFERENTIE == <<"BANKREFERENTIE">>

DuplicateKeyColumn == <<"duplicate_key">>

AmountColumn == <<"amount">>

\* The value csv.DictReader gives a column that a short line lacks.
NoneValue == <<"None">>

\* Header lines of the source files: without the key column, with it, and
\* with a column that happens to be called duplicate_key.
Layouts ==
    {<<AmountColumn>>, <<BANKREFERENTIE, AmountColumn>>, <<BANKREFERENTIE, DuplicateKeyColumn>>}

ColumnValues(c) ==
    IF c = BANKREFERENTIE THEN {<<"A">>, <<" ">>}
    ELSE IF c = AmountColumn THEN {<<"1">>, <<"2">>}
    ELSE {<<"A">>, <<" ">>}

\* The rows csv.DictReader yields for a source file with header L.
RecordsOf(L) ==
    {r \in [Range(L) -> UNION {ColumnValues(c) : c \in Range(L)}] :
        \A c \in Range(L) : r[c] \in ColumnValues(c)}

\* load_csv_rows(csv_file_path): what a source file can hold.
CsvInputs == UNION {SeqsUpTo(RecordsOf(L), MaxBatch) : L \in Layouts}

\* list(row.keys()): the columns of a row in the order of its file's header.
KeysOf(row) == CHOOSE L \in Layouts : Range(L) = DOMAIN row

\* csv.DictWriter.writerow(row): the values in the order of fieldnames, ""
\* for a column the row lacks.
WriteRow(fieldnames, row) ==
    [j \in DOMAIN fieldnames |->
        IF fieldnames[j] \in DOMAIN row THEN row[fieldnames[j]] ELSE <<>>]

\* One row of csv.DictReader, dict(zip(fieldnames, line)): a repeated name
\* keeps its last value, a column past the end of the line is None.
ReadRow(fieldnames, line) ==
    [n \in Range(fieldnames) |->
        LET j == CHOOSE k \in DOMAIN fieldnames :
                    /\ fieldnames[k] = n
                    /\ \A m \in DOMAIN fieldnames : fieldnames[m] = n => m <= k
        IN  IF j <= Len(line) THEN line[j] ELSE NoneValue]

\* csv.DictReader over a file: the first line names the columns.
DictReaderRows(lines) ==
    IF Len(lines) = 0 THEN <<>>
    ELSE [i \in 1..(Len(lines) - 1) |-> ReadRow(lines[1], lines[i + 1])]

\* (row.get(column) or "").strip()
StrippedOrEmpty(row, column) ==
    IF column \in DOMAIN row /\ row[column] # NoneValue THEN Strip(row[column]) ELSE <<>>

\* extract_key(csv_row)
extract_key(csv_row) == StrippedOrEmpty(csv_row, BANKREFERENTIE)

\* "|".join(values)
RECURSIVE JoinBar(_)
JoinBar(values) ==
    IF Len(values) = 0 THEN <<>>
    ELSE IF Len(values) = 1 THEN values[1]
    ELSE values[1] \o <<"|">> \o JoinBar(Tail(values))

\* extract_duplicate_key(row, bank_config) for a configuration without a
\* regex: the stripped values of the configured columns that are not
\* empty, joined; None when nothing is left.
extract_duplicate_key(row, columns) ==
    LET column_values == [j \in DOMAIN columns |-> StrippedOrEmpty(row, columns[j])]
        combined == Strip(JoinBar(SelectSeq(column_values, LAMBDA v : v # <<>>)))
    IN  IF combined = <<>> THEN NoneValue ELSE combined

\* validate_csv_structure(csv_rows)
validate_csv_structure(rows) == Len(rows) > 0 /\ BANKREFERENTIE \in DOMAIN rows[1]

\* transform_row(csv_row)
transform_row(csv_row) == csv_row

\* load_duplicate_index without the `if key:` test: every row of the file
\* is stored, under whatever its stripped duplicate_key is.
load_duplicate_index_keepsBlank(file) ==
    IF ~file.exists THEN <<>>
    ELSE LET rows == DictReaderRows(file.lines)
             keys == {StrippedOrEmpty(rows[i], DuplicateKeyColumn) : i \in DOMAIN rows}
         IN  [k \in keys |->
                SelectSeq(rows, LAMBDA r : StrippedOrEmpty(r, DuplicateKeyColumn) = k)]

\* load_duplicate_index(path): the rows of the file under their stored
\* duplicate_key, rows without one left out; no file, no entries.
load_duplicate_index(file) ==
    IF ~file.exists THEN <<>>
    ELSE LET rows == DictReaderRows(file.lines)
             keys == {StrippedOrEmpty(rows[i], DuplicateKeyColumn) : i \in DOMAIN rows} \ {<<>>}
         IN  [k \in keys |->
                SelectSeq(rows, LAMBDA r : StrippedOrEmpty(r, DuplicateKeyColumn) = k)]

\* load_duplicate_index without the test for a missing file: open raises.
LoadResults_noExistsCheck(file) ==
    {[called |-> TRUE, raised |-> TRUE, index |-> <<>>, file |-> file]}
    \cup (IF file.exists
          THEN {[called |-> TRUE, raised |-> FALSE, index |-> load_duplicate_index(file),
                 file |-> file]}
          ELSE {})

\* load_duplicate_index(path) as a call: everything it can do.  With no
\* file at the path it returns the empty index before anything is opened;
\* otherwise opening or reading the file may raise.  The file is left as
\* it is.
LoadResults(file) ==
    IF ~file.exists
    THEN {[called |-> TRUE, raised |-> FALSE, index |-> load_duplicate_index(file),
           file |-> file]}
    ELSE {[called |-> TRUE, raised |-> FALSE, index |-> load_duplicate_index(file),
           file |-> file],
          [called |-> TRUE, raised |-> TRUE, index |-> <<>>, file |-> file]}

\* The row loop without the append to the in-memory index.
IndexAppend_dropped(index, key, row) == index

\* duplicate_index[key].append(row) on the defaultdict
IndexAppend(index, key, row) ==
    IF key \in DOMAIN index THEN [index EXCEPT ![key] = Append(@, row)]
    ELSE index @@ (key :> <<row>>)

\* append_to_duplicate_index opening the file with mode "w": what the file
\* held is lost.
AppendRowsResults_truncating(file, rows) ==
    IF Len(rows) = 0 THEN {[raised |-> FALSE, file |-> file]}
    ELSE LET fieldnames == KeysOf(rows[1])
             body == [i \in DOMAIN rows |-> WriteRow(fieldnames, rows[i])]
         IN  {[raised |-> FALSE,
               file |-> FileOf((IF file.exists THEN <<>> ELSE <<fieldnames>>) \o body)]}

\* append_to_duplicate_index(path, rows) on rows that are dicts: every
\* result it can leave behind.
AppendRowsResults(file, rows) ==
    IF Len(rows) = 0 THEN {[raised |-> FALSE, file |-> file]}
    ELSE LET fieldnames == KeysOf(rows[1])
             body == [i \in DOMAIN rows |-> WriteRow(fieldnames, rows[i])]
             full == (IF file.exists THEN <<>> ELSE <<fieldnames>>) \o body
         IN  {[raised |-> FALSE, file |-> FileOf(file.lines \o full)],
              [raised |-> TRUE, file |-> file]}
             \cup {[raised |-> TRUE, file |-> FileOf(file.lines \o Prefix(full, n))] :
                      n \in 0..(Len(full) - 1)}

\* The duplicate check of the row loop: what happens to a transformed row.
RowClass(index, transformed_row) ==
    LET key == extract_key(transformed_row)
        existing_rows == ExistingRows(index, key)
    IN  IF key = <<>> THEN "nokey"
        ELSE IF \E i \in DOMAIN existing_rows : existing_rows[i] = transformed_row THEN "identical"
        ELSE IF Len(existing_rows) > 0 THEN "conflict"
        ELSE "new"

\* The final classification with the test of branch C taken first.
FinalBranch_successFirst(failed, transformed) ==
    IF transformed THEN "success"
    ELSE IF failed THEN "all_failed"
    ELSE "all_full_duplicates"

\* The final classification of main: the branch for the two flags.
FinalBranch(failed, transformed) ==
    IF failed /\ ~transformed THEN "all_failed"
    ELSE IF failed /\ transformed THEN "partial"
    ELSE IF ~failed /\ transformed THEN "success"
    ELSE "all_full_duplicates"

\* A failure file after writerow(row): the writer is created, and the
\* header written, with the first row.
FailureFileAfter(file, row) ==
    FileOf((IF file.exists THEN file.lines ELSE <<KeysOf(row)>>)
           \o <<WriteRow(IF file.exists THEN file.lines[1] ELSE KeysOf(row), row)>>)

\* The staged output when rows in conflict are written to it as well.
StagedOutputAfter_alsoConflicts(file, c, transformed_row) ==
    IF c \notin {"new", "conflict"} THEN file
    ELSE LET fieldnames == IF Len(file.lines) = 0 THEN KeysOf(transformed_row)
                           ELSE file.lines[1]
         IN  FileOf(file.lines
                    \o (IF Len(file.lines) = 0 THEN <<fieldnames>> ELSE <<>>)
                    \o <<WriteRow(fieldnames, transformed_row)>>)

\* The staged output after a row of class c: only a new row is written,
\* after the header when it is the first (lines 208-216).
StagedOutputAfter(file, c, transformed_row) ==
    IF c # "new" THEN file
    ELSE LET fieldnames == IF Len(file.lines) = 0 THEN KeysOf(transformed_row)
                           ELSE file.lines[1]
         IN  FileOf(file.lines
                    \o (IF Len(file.lines) = 0 THEN <<fieldnames>> ELSE <<>>)
                    \o <<WriteRow(fieldnames, transformed_row)>>)

\* The file of rows without a usable key after a row of class c (lines 164-179).
TransformFailedAfter(file, c, csv_row) ==
    IF c # "nokey" THEN file ELSE FailureFileAfter(file, csv_row)

\* The file of duplicate rows after a row of class c (lines 189-206).
DuplicateFailedAfter(file, c, transformed_row) ==
    IF c # "conflict" THEN file ELSE FailureFileAfter(file, transformed_row)

\* What main has no part in: the arguments and locals of finalize.
finalize_only == <<transformed_rows, move_suffix, normalized_suffix, temp_output_path, exit_code,
                   snapshot_file, previous_file, updated_duplicate_index,
                   previous_duplicate_index, open_writers, exit_calls, trace, failed_step,
                   absorbed, live_writes, comp_move, backup_dir, now, rotation_errors,
                   deleted_by_age, deleted_by_count, log>>

\* Go on with the next statement of main.
Continue(next) ==
    /\ pc' = next
    /\ UNCHANGED <<exit_status, reported, crashed>>

\* sys.exit(code) in main.
MainExit(code) ==
    /\ pc' = "done"
    /\ exit_status' = code
    /\ reported' = reported \cup {<<outcome', code>>}
    /\ UNCHANGED crashed

\* An exception that nothing in main catches: the interpreter prints the
\* traceback and the process ends with status 1.
MainCrash ==
    /\ pc' = "done"
    /\ exit_status' = 1
    /\ crashed' = TRUE
    /\ UNCHANGED reported

\* shutil.move of the source file by main, recorded as main's doing.
MainMoveSourceTo(dest, o) ==
    /\ csv_locations' = Move(csv_locations, Incoming, dest, o).locs
    /\ mutators' = IF csv_locations' # csv_locations
                   THEN mutators \cup {<<"main", "source">>} ELSE mutators

\* Load CSV (lines 75-82)
MainLoad ==
    /\ pc = "m_load"
    /\ \/ /\ outcome' = "error"
          /\ MainExit(1)
       \/ /\ Continue("m_validate")
          /\ UNCHANGED outcome
    /\ UNCHANGED <<csv_locations, output_locations, live_index, initial_index, run, csv_rows,
                   row_i, duplicate_index_mem, failed_any, transformed_any, temp_file, classes,
                   committed, mutators, cl_vars, conc_vars, load_result, transform_failed_file, duplicate_failed_file, finalize_only>>

\* Validate structure (lines 87-98)
MainValidate ==
    /\ pc = "m_validate"
    /\ IF ~validate_csv_structure(csv_rows)
       THEN /\ outcome' = "structure_failed"
            /\ \E o \in MoveOutcomes :
                  /\ MainMoveSourceTo(Processed("-failed.csv"), o)
                  /\ IF Move(csv_locations, Incoming, Processed("-failed.csv"), o).raised
                     THEN MainCrash ELSE MainExit(100)
       ELSE /\ Continue("m_index")
            /\ UNCHANGED <<outcome, csv_locations, mutators>>
    /\ UNCHANGED <<output_locations, live_index, initial_index, run, csv_rows, row_i,
                   duplicate_index_mem, failed_any, transformed_any, temp_file, classes,
                   committed, cl_vars, conc_vars, load_result, transform_failed_file, duplicate_failed_file, finalize_only>>

\* Load duplicate index, prepare output files (lines 103-134); neither is
\* inside a try.
MainLoadIndex ==
    /\ pc = "m_index"
    /\ \E r \in LoadResults(live_index) :
          /\ load_result' = r
          /\ live_index' = r.file
          /\ IF r.raised
             THEN /\ MainCrash
                  /\ UNCHANGED <<duplicate_index_mem, temp_file, output_locations>>
             ELSE /\ duplicate_index_mem' = r.index
                  /\ \/ /\ MainCrash
                        /\ UNCHANGED <<temp_file, output_locations>>
                     \/ /\ temp_file' = FileOf(<<>>)
                        /\ output_locations' = {TempOutput}
                        /\ Continue("m_rows")
    /\ UNCHANGED <<csv_locations, initial_index, run, csv_rows, row_i, failed_any,
                   transformed_any, outcome, classes, committed, mutators, cl_vars, conc_vars, transform_failed_file, duplicate_failed_file,
                   finalize_only>>

\* Row-by-row processing (lines 139-231): one row, or the exception that
\* ends the loop and the run.  What happened to each row is recorded in
\* classes.
MainRow ==
    /\ pc = "m_rows"
    /\ row_i < Len(csv_rows)
    /\ \/ /\ outcome' = "error"
          /\ MainExit(1)
          /\ UNCHANGED <<row_i, classes, failed_any, transformed_any, temp_file,
                         duplicate_index_mem, transform_failed_file, duplicate_failed_file>>
       \/ LET transformed_row == transform_row(csv_rows[row_i + 1])
              c == RowClass(duplicate_index_mem, transformed_row)
          IN  /\ row_i' = row_i + 1
              /\ classes' = Append(classes, c)
              /\ failed_any' = (failed_any \/ c \in {"nokey", "conflict"})
              /\ transformed_any' = (transformed_any \/ c = "new")
              /\ temp_file' = StagedOutputAfter(temp_file, c, transformed_row)
              /\ transform_failed_file' =
                    TransformFailedAfter(transform_failed_file, c, csv_rows[row_i + 1])
              /\ duplicate_failed_file' =
                    DuplicateFailedAfter(duplicate_failed_file, c, transformed_row)
              /\ duplicate_index_mem' =
                    IF c # "new" THEN duplicate_index_mem
                    ELSE IndexAppend(duplicate_index_mem, extract_key(transformed_row),
                                     transformed_row)
              /\ Continue(IF row_i + 1 = Len(csv_rows) THEN "m_final" ELSE "m_rows")
              /\ UNCHANGED outcome
    /\ UNCHANGED <<csv_locations, output_locations, live_index, initial_index, run, csv_rows,
                   committed, mutators, cl_vars, conc_vars, load_result, finalize_only>>

\* Final classification (lines 236-239, 254, 280, 306): choose the branch.
MainFinal ==
    /\ pc = "m_final"
    /\ outcome' = FinalBranch(failed_any, transformed_any)
    /\ Continue(CASE outcome' = "all_failed" -> "m_all_failed"
                  [] outcome' = "all_full_duplicates" -> "m_all_duplicates"
                  [] OTHER -> "m_append")
    /\ UNCHANGED <<csv_locations, output_locations, live_index, initial_index, run, csv_rows,
                   row_i, duplicate_index_mem, failed_any, transformed_any, temp_file, classes,
                   committed, mutators, cl_vars, conc_vars, load_result, transform_failed_file, duplicate_failed_file, finalize_only>>

\* Branches A and D: move the source, remove the staged output, exit.
MainDiscard(dest, code) ==
    /\ UNCHANGED outcome
    /\ \E o \in MoveOutcomes :
          /\ MainMoveSourceTo(dest, o)
          /\ IF Move(csv_locations, Incoming, dest, o).raised
             THEN /\ MainCrash
                  /\ UNCHANGED output_locations
             ELSE \/ /\ MainCrash
                     /\ UNCHANGED output_locations
                  \/ /\ output_locations' = output_locations \ {TempOutput}
                     /\ MainExit(code)
    /\ UNCHANGED <<live_index, initial_index, run, csv_rows, row_i, duplicate_index_mem,
                   failed_any, transformed_any, temp_file, classes, committed, cl_vars, conc_vars, load_result, transform_failed_file, duplicate_failed_file,
                   finalize_only>>

\* A) All failed (lines 239-251)
MainAllFailed ==
    /\ pc = "m_all_failed"
    /\ MainDiscard(Processed("-failed.csv"), 100)

\* D) All full duplicates (lines 306-318)
MainAllDuplicates ==
    /\ pc = "m_all_duplicates"
    /\ MainDiscard(Processed(".csv"), 0)

\* The suffix of the names branches B and C give their files.
BranchSuffix(o) == IF o = "partial" THEN "-partial.csv" ELSE ".csv"

\* The exit status of branches B and C.
BranchStatus(o) == IF o = "partial" THEN 101 ELSE 0

\* B) and C), first part (lines 257-263, 283-289): read the accepted rows
\* back from the staged output and append them to the live index.
MainAppend ==
    /\ pc = "m_append"
    /\ \/ /\ MainCrash
          /\ UNCHANGED <<live_index, mutators>>
       \/ \E r \in AppendRowsResults(live_index, DictReaderRows(temp_file.lines)) :
             /\ live_index' = r.file
             /\ mutators' = IF r.file # live_index
                            THEN mutators \cup {<<"main", "index">>} ELSE mutators
             /\ IF r.raised THEN MainCrash ELSE Continue("m_move_output")
    /\ UNCHANGED <<csv_locations, output_locations, initial_index, run, csv_rows, row_i,
                   duplicate_index_mem, failed_any, transformed_any, temp_file, outcome, classes,
                   committed, cl_vars, conc_vars, load_result, transform_failed_file, duplicate_failed_file, finalize_only>>

\* B) and C), second part (lines 265-269, 291-295): move the staged output.
MainMoveOutput ==
    /\ pc = "m_move_output"
    /\ \E o \in MoveOutcomes :
          LET m == Move(output_locations, TempOutput, Normalized(BranchSuffix(outcome)), o)
          IN  /\ output_locations' = m.locs
              /\ IF m.raised THEN MainCrash ELSE Continue("m_move_source")
    /\ UNCHANGED <<csv_locations, live_index, initial_index, run, csv_rows, row_i,
                   duplicate_index_mem, failed_any, transformed_any, temp_file, outcome, classes,
                   committed, mutators, cl_vars, conc_vars, load_result, transform_failed_file, duplicate_failed_file, finalize_only>>

\* B) and C), last part (lines 271-277, 297-303): move the source and exit.
MainMoveSource ==
    /\ pc = "m_move_source"
    /\ UNCHANGED outcome
    /\ \E o \in MoveOutcomes :
          /\ MainMoveSourceTo(Processed(BranchSuffix(outcome)), o)
          /\ IF Move(csv_locations, Incoming, Processed(BranchSuffix(outcome)), o).raised
             THEN MainCrash
             ELSE MainExit(BranchStatus(outcome))
    /\ UNCHANGED <<output_locations, live_index, initial_index, run, csv_rows, row_i,
                   duplicate_index_mem, failed_any, transformed_any, temp_file, classes,
                   committed, cl_vars, conc_vars, load_result, transform_failed_file, duplicate_failed_file, finalize_only>>

\* The next run of main: a new source file; the live index is as the last
\* run left it, and the run's file names (made from its timestamp) are new.
\* The rows the last run accepted, if it ended in success or partial, are
\* from now on rows committed by an earlier run.
MainNextRun ==
    /\ pc = "done"
    /\ run < MaxRuns
    /\ run' = run + 1
    /\ pc' = "m_load"
    /\ csv_rows' \in CsvInputs
    /\ csv_locations' = {Incoming}
    /\ output_locations' = {}
    /\ initial_index' = live_index
    /\ exit_status' = -1
    /\ row_i' = 0
    /\ duplicate_index_mem' = <<>>
    /\ failed_any' = FALSE
    /\ transformed_any' = FALSE
    /\ temp_file' = NoFile
    /\ outcome' = ""
    /\ crashed' = FALSE
    /\ classes' = <<>>
    /\ committed' =
          IF outcome \in {"success", "partial"} /\ ~crashed
          THEN committed \cup {csv_rows[i] : i \in {k \in DOMAIN classes : classes[k] = "new"}}
          ELSE committed
    /\ load_result' = NotLoaded
    /\ transform_failed_file' = NoFile
    /\ duplicate_failed_file' = NoFile
    /\ UNCHANGED <<live_index, reported, mutators, cl_vars, conc_vars, finalize_only>>

\* The first run of main: no duplicate index exists yet.
InitMain ==
    /\ pc = "m_load"
    /\ run = 1
    /\ csv_rows \in CsvInputs
    /\ csv_locations = {Incoming}
    /\ output_locations = {}
    /\ live_index = NoFile
    /\ initial_index = NoFile
    /\ exit_status = -1
    /\ row_i = 0
    /\ duplicate_index_mem = <<>>
    /\ failed_any = FALSE
    /\ transformed_any = FALSE
    /\ temp_file = NoFile
    /\ outcome = ""
    /\ crashed = FALSE
    /\ classes = <<>>
    /\ committed = {}
    /\ reported = {}
    /\ mutators = {}
    /\ load_result = NotLoaded
    /\ transform_failed_file = NoFile
    /\ duplicate_failed_file = NoFile
    /\ NoClassification
    /\ transformed_rows = [isNone |-> TRUE, rows |-> <<>>]
    /\ move_suffix = ".csv"
    /\ normalized_suffix = "None"
    /\ temp_output_path = ""
    /\ exit_code = 0
    /\ snapshot_file = NoFile
    /\ previous_file = NoFile
    /\ updated_duplicate_index = "None"
    /\ previous_duplicate_index = "None"
    /\ open_writers = {}
    /\ exit_calls = 0
    /\ trace = <<>>
    /\ failed_step = 0
    /\ absorbed = {}
    /\ live_writes = 0
    /\ comp_move = ""
    /\ backup_dir = {}
    /\ NoRotation
    /\ NoConcurrency
    /\ log = <<>>

NextMain ==
    \/ MainLoad
    \/ MainValidate
    \/ MainLoadIndex
    \/ MainRow
    \/ MainFinal
    \/ MainAllFailed
    \/ MainAllDuplicates
    \/ MainAppend
    \/ MainMoveOutput
    \/ MainMoveSource
    \/ MainNextRun

SpecMain == InitMain /\ [][NextMain]_vars

\* --------------------------------------------------------------- claims
Count(seq, x) == Cardinality({i \in DOMAIN seq : seq[i] = x})

Executed(label) == \E i \in DOMAIN trace : trace[i] = label

\* finalize was given no accepted rows (None or an empty list).
NoAcceptedRows == transformed_rows.isNone \/ Len(transformed_rows.rows) = 0

\* C1: whatever steps 1-7 do, log_email_exit is called exactly once per run:
\* never twice, the run is over exactly when it has been called, it is the
\* last thing the run does, and a run that is not over can always go on.
C1_ExitExactlyOnce ==
    /\ exit_calls = Count(trace, "exit")
    /\ exit_calls <= 1
    /\ ((pc = "done") <=> (exit_calls = 1))
    /\ (exit_calls = 1 => trace[Len(trace)] = "exit")
    /\ (pc # "done" => ENABLED Next)

\* C1 witness: a run that absorbed errors in steps 5, 6 and 7 and exited once.
C1_Witness == pc = "done" /\ absorbed = {5, 6, 7} /\ exit_calls = 1 /\ exit_status = exit_code

\* C2 (as claimed): when step 4 fails after step 3 committed accepted rows,
\* the live index at termination is the file it was before step 3.
C2_RollbackRestoresIndex ==
    (pc = "done" /\ failed_step = 4 /\ ~NoAcceptedRows) => live_index = initial_index

\* C3: with no accepted rows the live index is never created, written or
\* replaced, in any state of the run.
C3_EmptyCommitLeavesIndex ==
    NoAcceptedRows => (live_index = initial_index /\ live_writes = 0)

\* C3 witness: an empty list of rows, step 4 failed and its handler ran.
C3_Witness ==
    /\ pc = "done"
    /\ ~transformed_rows.isNone
    /\ Len(transformed_rows.rows) = 0
    /\ failed_step = 4
    /\ exit_status = 92
    /\ initial_index.exists

\* Declarative reading of the classification claims: the part of a string
\* between its first and last non-space character.
Core(s) ==
    LET idx == {i \in DOMAIN s : s[i] # " "}
    IN  IF idx = {} THEN <<>>
        ELSE SubSeq(s, CHOOSE i \in idx : \A k \in idx : i <= k,
                       CHOOSE i \in idx : \A k \in idx : i >= k)

FieldOf(row, f) == IF f \in DOMAIN row THEN row[f] ELSE <<>>

\* The entries stored under the looked-up key.
StoredEntries == IF cl_key \in DOMAIN cl_index THEN cl_index[cl_key] ELSE <<>>

EqualOnRequired(entry, row) ==
    \A j \in DOMAIN cl_required :
        Core(FieldOf(entry, cl_required[j])) = Core(FieldOf(row, cl_required[j]))

SomeEntryEqual == \E i \in DOMAIN StoredEntries : EqualOnRequired(StoredEntries[i], cl_row)

\* C4: a key with no entries in the index is classified "new".
C4_AbsentKeyIsNew ==
    (cl_result # "" /\ Len(StoredEntries) = 0) => cl_result = "new"

\* C4 witness: a key that is not in the index at all was classified.
C4_Witness == cl_result = "new" /\ cl_key \notin DOMAIN cl_index /\ cl_required # <<>>

\* C5: an entry under the key that equals the record on every required
\* field (after trimming) makes the record "identical".
C5_RequiredMatchIsIdentical ==
    (cl_result # "" /\ SomeEntryEqual) => cl_result = "identical"

\* C5 witness: the matching entry is the second one, differs from the record
\* in the untrimmed required value and in a non-required field.
C5_Witness ==
    /\ cl_result = "identical"
    /\ cl_required = <<"amount">>
    /\ Len(StoredEntries) = 2
    /\ ~EqualOnRequired(StoredEntries[1], cl_row)
    /\ FieldOf(StoredEntries[2], "amount") # FieldOf(cl_row, "amount")
    /\ FieldOf(StoredEntries[2], "memo") # FieldOf(cl_row, "memo")

\* C6: a key with entries, none equal to the record on all required fields,
\* makes the record "conflict".
C6_NoMatchIsConflict ==
    (cl_result # "" /\ Len(StoredEntries) > 0 /\ ~SomeEntryEqual) => cl_result = "conflict"

\* C6 witness: an entry equal on the first required field and different on
\* the second.
C6_Witness ==
    /\ cl_result = "conflict"
    /\ cl_required = <<"amount", "memo">>
    /\ \E i \in DOMAIN StoredEntries :
          /\ Core(FieldOf(StoredEntries[i], "amount")) = Core(FieldOf(cl_row, "amount"))
          /\ FieldOf(StoredEntries[i], "memo") # FieldOf(cl_row, "memo")

\* C7 (as claimed): the content of the live index is at every moment either
\* what it was before the commit or the complete snapshot of step 1.
C7_CommitIsAtomic ==
    \/ live_index.lines = initial_index.lines
    \/ updated_duplicate_index = "path" /\ live_index.lines = snapshot_file.lines

\* C8 (as claimed): when step 3 fails, the live index at termination has
\* exactly the content it had before step 3, the source is in FAILED_DIR
\* when that move succeeded, and status 93 is reported.
C8_FailedCommitLeavesIndex ==
    (pc = "done" /\ failed_step = 3) =>
        /\ live_index.lines = initial_index.lines
        /\ exit_status = 93
        /\ (comp_move = "ok" => csv_locations = {Failed})

\* C9: when step 1 fails the run ends with status 97, the source where it
\* was, the live index and the staged output untouched, and only step 1 run.
C9_PrepFailureTouchesNothing ==
    failed_step = 1 =>
        /\ pc = "done"
        /\ exit_status = 97
        /\ csv_locations = {Incoming}
        /\ live_index = initial_index
        /\ live_writes = 0
        /\ output_locations \subseteq {TempOutput}
        /\ trace = <<"s1", "exit">>

\* C9 witness: step 1 failed after writing part of the snapshot.
C9_Witness == failed_step = 1 /\ pc = "done" /\ snapshot_file.exists /\ initial_index.exists

\* C10: when the source move of step 2 fails there is exactly one attempt
\* to move the source to FAILED_DIR, then status 94; the live index is not
\* touched and no later step runs, whatever the fallback move does.
C10_SourceMoveFailure ==
    failed_step = 2 =>
        /\ pc = "done"
        /\ exit_status = 94
        /\ comp_move \in {"ok", "raised"}
        /\ trace = <<"s1", "s2", "s2_fallback", "exit">>
        /\ live_index = initial_index
        /\ live_writes = 0
        /\ output_locations \subseteq {TempOutput}

\* C10 witness: the fallback move succeeded, after accepted rows were staged
\* in step 1.
C10_Witness ==
    /\ failed_step = 2
    /\ comp_move = "ok"
    /\ csv_locations = {Failed}
    /\ updated_duplicate_index = "path"

\* A duplicate-index file that holds an entry row has one header line, and
\* that line is its first.
HeaderFirstAndOnly(f) ==
    (\E i \in DOMAIN f.lines : f.lines[i] # Header) =>
        /\ f.lines[1] = Header
        /\ \A i \in DOMAIN f.lines : i > 1 => f.lines[i] # Header

\* C11 (as claimed): over any sequence of runs, the live index, the run's
\* snapshot and the restore copy each have exactly one header line, first,
\* as soon as they hold an entry row.
C11_OneHeaderFirst ==
    \A f \in {live_index, snapshot_file, previous_file} : HeaderFirstAndOnly(f)

\* C12 (as claimed): a record that an earlier run accepted and committed is
\* classified identical when a later run meets it again, and a run made of
\* such records only leaves the live index as it found it.
C12_ResubmittedIsIdentical ==
    /\ \A i \in DOMAIN classes : csv_rows[i] \in committed => classes[i] = "identical"
    /\ (pc = "done" /\ Len(csv_rows) > 0 /\ \A i \in DOMAIN csv_rows : csv_rows[i] \in committed)
          => live_index = initial_index

\* The entry rows of an index file: its lines other than header lines.
EntryLines(f) == SelectSeq(f.lines, LAMBDA l : l \notin Layouts)

\* The positions of the batch whose record was classified c.
PositionsOf(c) == SelectSeq([i \in DOMAIN classes |-> i], LAMBDA i : classes[i] = c)

\* One line per record classified new: its values in the order of its columns.
AcceptedLines ==
    [k \in DOMAIN PositionsOf("new") |->
        LET row == csv_rows[PositionsOf("new")[k]]
        IN  [j \in DOMAIN KeysOf(row) |-> row[KeysOf(row)[j]]]]

\* C13: when a run has ended as success or partial, the entries of the live
\* index are those it held when the run started, followed by one entry for
\* each record classified new and by nothing else.
C13_IndexGrowsByAccepted ==
    (pc = "done" /\ outcome \in {"success", "partial"} /\ ~crashed) =>
        EntryLines(live_index) = EntryLines(initial_index) \o AcceptedLines

\* C13 witness: a second run that ended as partial, over an index with
\* entries, with a record accepted and a record in conflict.
C13_Witness ==
    /\ pc = "done"
    /\ run = 2
    /\ outcome = "partial"
    /\ exit_status = 101
    /\ Len(EntryLines(initial_index)) > 0
    /\ \E i \in DOMAIN classes : classes[i] = "conflict"

\* Records accepted as new, and records diverted to a failure stream.
Accepted == Len(PositionsOf("new"))

Diverted == Len(PositionsOf("nokey")) + Len(PositionsOf("conflict"))

\* C14: once the rows are all classified exactly one of the four branches
\* is taken, and it is the one the batch calls for.
C14_OutcomeByBatch ==
    /\ pc \in {"m_all_failed", "m_all_duplicates", "m_append", "m_move_output", "m_move_source"}
          => outcome \in {"success", "partial", "all_failed", "all_full_duplicates"}
    /\ outcome \in {"success", "partial", "all_failed", "all_full_duplicates"} =>
          /\ Len(classes) = Len(csv_rows)
          /\ (outcome = "success") <=> (Accepted >= 1 /\ Diverted = 0)
          /\ (outcome = "partial") <=> (Accepted >= 1 /\ Diverted >= 1)
          /\ (outcome = "all_failed") <=> (Accepted = 0 /\ Diverted >= 1)
          /\ (outcome = "all_full_duplicates") <=> (Accepted = 0 /\ Diverted = 0)

\* C14 witness: one record accepted, then one in conflict with it: partial.
C14_Witness ==
    /\ pc = "done"
    /\ classes = <<"new", "conflict">>
    /\ outcome = "partial"
    /\ exit_status = 101

\* C15: a run that ended as all_failed, structure_failed, error or
\* all_full_duplicates left no output in the normalized tree and the live
\* index as it found it.
C15_NoOutputNoIndexChange ==
    (pc = "done" /\ outcome \in {"all_failed", "structure_failed", "error", "all_full_duplicates"})
        => /\ \A l \in output_locations : l.dir # "normalized"
           /\ live_index = initial_index

\* C15 witness: a second run whose only record was in conflict with a
\* committed one.
C15_Witness ==
    /\ pc = "done"
    /\ run = 2
    /\ outcome = "all_failed"
    /\ classes = <<"conflict">>
    /\ initial_index.exists
    /\ exit_status = 100

\* The suffix of the processed name the source is to get for an outcome.
DestinationSuffix(o) ==
    IF o \in {"success", "all_full_duplicates"} THEN ".csv"
    ELSE IF o = "partial" THEN "-partial.csv"
    ELSE "-failed.csv"

\* C16 (as claimed), for the runs that end in a sys.exit of main: whatever
\* the outcome, the source has left its place and is in the processed tree
\* under the name for the outcome.
C16_SourceAtDestination ==
    (pc = "done" /\ outcome # "" /\ ~crashed) =>
        csv_locations = {Processed(DestinationSuffix(outcome))}

\* C17 (as claimed): two different outcomes are never reported with the
\* same exit status.
C17_DistinctStatuses ==
    \A p \in reported : \A q \in reported : p[1] # q[1] => p[2] # q[2]

\* C18 (as claimed): only finalize writes the duplicate-index file or moves
\* the source file; main does neither.
C18_OnlyFinalizeMutates ==
    \A m \in mutators : m[1] = "finalize"

\* C19 (as claimed): when a run has terminated, every entry the live index
\* held when the run started is still in it, unchanged.
C19_EntriesNeverLost ==
    pc = "done" =>
        \A i \in DOMAIN initial_index.lines :
            initial_index.lines[i] # Header =>
                \E j \in DOMAIN live_index.lines : live_index.lines[j] = initial_index.lines[i]

\* C20: the step that calls create_updated_duplicate_index leaves the file
\* at the live index path as it is, whether the call returns or raises.
C20_SnapshotLeavesLiveIndex ==
    [][pc = "s1" => live_index' = live_index]_vars

\* C20 witness: the call raised after copying an existing index with an
\* entry to the snapshot path and writing one of two rows after it.
C20_Witness ==
    /\ failed_step = 1
    /\ Len(transformed_rows.rows) = 2
    /\ Len(initial_index.lines) >= 2
    /\ Len(snapshot_file.lines) = Len(initial_index.lines) + 1
    /\ live_index = initial_index

\* A file of the backup directory that is an index snapshot: a run
\* timestamp first, "-duplicate-index.csv" last.
IsIndexSnapshot(name) == EndsWithSuffix(name) /\ name[1].kind = "timestamp"

IndexSnapshots == {n \in backup_dir : IsIndexSnapshot(n)}

\* C21: after a step 5 in which nothing failed, in any sequence of runs,
\* the index snapshots in the backup directory (those step 1 created
\* included) number at most MAX_BACKUPS and none is older than
\* MAX_BACKUP_AGE_DAYS.
C21_SnapshotsBounded ==
    (Executed("s5") /\ rotation_errors = 0) =>
        /\ Cardinality(IndexSnapshots) <= MAX_BACKUPS
        /\ \A n \in IndexSnapshots : now - TimestampOf(n) <= MAX_BACKUP_AGE_DAYS

\* C22: after a rotation in which no deletion failed, every retained backup
\* is within the age threshold, at most MAX_BACKUPS are retained, and no
\* retained backup is older than one the count rule removed; and whatever
\* failed, only files whose names parse as run timestamps are removed.
C22_RotationRetains ==
    pc = "rotated" =>
        /\ \A d \in deleted_by_age \cup deleted_by_count :
              EndsWithSuffix(d) /\ ParsesAsTimestamp(TsPartOf(d))
        /\ rotation_errors = 0 =>
              /\ \A n \in BackupFiles(backup_dir) : now - TimestampOf(n) <= MAX_BACKUP_AGE_DAYS
              /\ Cardinality(BackupFiles(backup_dir)) <= MAX_BACKUPS
              /\ \A n \in BackupFiles(backup_dir) : \A d \in deleted_by_count :
                    ~(TimestampOf(n) < TimestampOf(d))

\* C22 witness: a rotation without errors removed files by both rules,
\* kept the backup exactly at the threshold and passed over a snapshot of
\* step 1 that is past it.
C22_Witness ==
    /\ pc = "rotated"
    /\ rotation_errors = 0
    /\ deleted_by_age # {}
    /\ deleted_by_count # {}
    /\ BackupName(now - MAX_BACKUP_AGE_DAYS) \in backup_dir \cup deleted_by_count
    /\ Cardinality(BackupFiles(backup_dir)) = MAX_BACKUPS
    /\ ForeignNames \subseteq backup_dir
\* A step from step 5 on leaves the live index, the source and the
\* relocated normalized output where they are.
KeepsCommitted ==
    pc \in {"s5", "s6", "s7", "s8"} =>
        /\ live_index' = live_index
        /\ csv_locations' = csv_locations
        /\ output_locations' \ {TempOutput} = output_locations \ {TempOutput}

\* C23: an error in steps 5 to 7 is absorbed: the run goes on through
\* step 8 and exits once with the outcome's own status, and from step 5 on
\* the live index, the relocated source and the relocated normalized output
\* stay as step 4 left them.
C23_NonCriticalAbsorbed ==
    /\ [](absorbed # {} =>
            /\ failed_step = 0
            /\ pc \in {"s6", "s7", "s8", "done"}
            /\ pc # "done" => ENABLED Next
            /\ pc = "done" =>
                  /\ Executed("s7")
                  /\ trace[Len(trace)] = "exit"
                  /\ exit_calls = 1
                  /\ exit_status = exit_code)
    /\ [][KeepsCommitted]_vars

\* C23 witness: a run that committed accepted rows and relocated its
\* output, met an error in each of steps 5, 6 and 7, and exited with the
\* outcome's status.
C23_Witness ==
    /\ pc = "done"
    /\ absorbed = {5, 6, 7}
    /\ Truthy(transformed_rows)
    /\ live_index = snapshot_file
    /\ csv_locations = {Processed(move_suffix)}
    /\ Normalized(normalized_suffix) \in output_locations
    /\ exit_status = exit_code
    /\ exit_code = 100
\* C24: every error raised during the rotation of step 5 (a deletion that
\* fails, or any other exception) has its entry in the log of the run.
C24_RotationErrorsLogged ==
    Executed("s5") => Count(log, "[ROTATION ERROR]") = rotation_errors
\* The status finalize hands to log_email_exit: the status of the critical
\* step that failed, or the outcome's own.
StatusPassed ==
    CASE failed_step = 1 -> 97
      [] failed_step = 2 -> 94
      [] failed_step = 3 -> 93
      [] failed_step = 4 -> 92
      [] OTHER -> exit_code

\* C25: a notification that cannot be delivered in log_email_exit does not
\* abort or alter the run: the failure is logged inside send_email, and the
\* process exits exactly once, through sys.exit, with the status passed.
C25_EmailFailureAbsorbed ==
    Count(log, "[EMAIL ERROR]") > 0 =>
        /\ pc = "done"
        /\ exit_calls = 1
        /\ trace[Len(trace)] = "exit"
        /\ exit_status = StatusPassed
        /\ Count(log, "final") = 1

\* C25 witness: the final notification of a partial run, and the
\* notification of a failed commit, could not be delivered.
C25_Witness ==
    /\ Count(log, "[EMAIL ERROR]") = 1
    /\ exit_calls = 1
    /\ \/ failed_step = 0 /\ exit_code = 101 /\ exit_status = 101 /\ Executed("s7")
       \/ failed_step = 3 /\ exit_status = 93
\* C26: whenever no file exists at the index path, load_duplicate_index
\* raises nothing, returns the empty index and creates no file.
C26_MissingIndexLoadsEmpty ==
    (load_result.called /\ ~initial_index.exists) =>
        /\ ~load_result.raised
        /\ DOMAIN load_result.index = {}
        /\ ~load_result.file.exists
        /\ (pc = "m_rows" /\ row_i = 0) =>
              (DOMAIN duplicate_index_mem = {} /\ ~live_index.exists)

\* C26 witness: a second run that still finds no index file has loaded the
\* empty index and goes on to its rows.
C26_Witness ==
    /\ load_result.called
    /\ ~initial_index.exists
    /\ run = 2
    /\ pc = "m_rows"
    /\ Len(csv_rows) > 0
\* The steps of finalize in their order.
StepOrder == <<"s1", "s2", "s3", "s4", "s5", "s6", "s7">>

\* The steps attempted so far, handlers and the exit left out.
StepsAttempted == SelectSeq(trace, LAMBDA l : l \in Range(StepOrder))

\* The snapshot step 1 is to build: the index as the run found it, the
\* header if there was no file, and the accepted rows.
FullSnapshot ==
    FileOf(initial_index.lines
           \o (IF initial_index.exists THEN <<>> ELSE <<Header>>)
           \o transformed_rows.rows)

\* What a step may do, given what came before it: the source leaves the
\* incoming directory only once the snapshot is built, the live index is
\* written only once the source has left it, and the normalized output
\* appears under its final name only once the commit is complete.
OrderedEffects ==
    /\ (Incoming \in csv_locations /\ csv_locations' # csv_locations) =>
          /\ StepsAttempted = SubSeq(StepOrder, 1, 1)
          /\ Truthy(transformed_rows) =>
                (updated_duplicate_index = "path" /\ snapshot_file = FullSnapshot)
    /\ live_index' # live_index =>
          /\ Incoming \notin csv_locations
          /\ SubSeq(StepOrder, 1, 2) = SubSeq(StepsAttempted, 1, 2)
    /\ (\E l \in output_locations' \ output_locations : l.dir = "normalized") =>
          /\ StepsAttempted = SubSeq(StepOrder, 1, 3)
          /\ pc = "s4"
          /\ Truthy(transformed_rows) => live_index = FullSnapshot

\* C27: in one run the steps are attempted in the order 1 to 8, each at
\* most once and none again after it failed; the snapshot is complete
\* before the source is moved, the source is moved before the live index is
\* written, and the normalized output is moved only after the commit.
C27_FixedStepOrder ==
    /\ [](/\ StepsAttempted = SubSeq(StepOrder, 1, Len(StepsAttempted))
          /\ Count(trace, "exit") <= 1
          /\ Count(trace, "exit") = 1 => (pc = "done" /\ trace[Len(trace)] = "exit")
          /\ (pc = "done" /\ failed_step = 0) => StepsAttempted = StepOrder)
    /\ [][OrderedEffects]_vars

\* C27 witness: a run with accepted rows went through all its steps: the
\* index is committed and the output and the source are relocated.
C27_Witness ==
    /\ pc = "done"
    /\ trace = StepOrder \o <<"exit">>
    /\ Truthy(transformed_rows)
    /\ live_index = FullSnapshot
    /\ live_writes = 1
    /\ csv_locations = {Processed(move_suffix)}
    /\ Normalized(normalized_suffix) \in output_locations
\* C28: within one batch a record accepted as new is seen by every later
\* record, before anything is committed: a later record with the same key
\* is never new, it is identical when it equals the accepted record on
\* the compared fields and in conflict otherwise; so at most one record per
\* key is accepted in a batch.
C28_AcceptedSeenInBatch ==
    /\ pc \in {"m_rows", "m_final"} => live_index = initial_index
    /\ \A i \in DOMAIN classes : \A j \in DOMAIN classes :
          (i < j /\ classes[i] = "new"
                 /\ extract_key(csv_rows[i]) = extract_key(csv_rows[j])) =>
              /\ classes[j] \in {"identical", "conflict"}
              /\ classes[j] = "identical" <=> csv_rows[j] = csv_rows[i]

\* C28 witness: the second record of a first run has the key of the
\* accepted first one and another amount; nothing is committed yet.
C28_Witness ==
    /\ run = 1
    /\ pc = "m_final"
    /\ classes = <<"new", "conflict">>
    /\ ~live_index.exists
\* One line per record classified c, in the order of the batch: its values
\* in the order of its columns.
ClassLines(c) ==
    [k \in DOMAIN PositionsOf(c) |->
        LET row == csv_rows[PositionsOf(c)[k]]
        IN  [j \in DOMAIN KeysOf(row) |-> row[KeysOf(row)[j]]]]

\* The records classified new that carry key k, in the order of the batch.
AcceptedUnder(k) ==
    LET at == SelectSeq(PositionsOf("new"), LAMBDA i : extract_key(csv_rows[i]) = k)
    IN  [n \in DOMAIN at |-> csv_rows[at[n]]]

\* C29: every record handled is classified once and, at every point of the
\* row loop and when it has ended, has gone to one place: a
\* new record to the staged output and to the pending index additions and
\* to no failure file, a record in conflict to the file of duplicate rows
\* only, an identical record nowhere (and a record without a key to the
\* file of rejected rows only).
C29_OneRoutePerRecord ==
    /\ Len(classes) = row_i
    /\ pc \in {"m_rows", "m_final"} =>
          /\ \A i \in DOMAIN classes : classes[i] \in {"new", "identical", "conflict", "nokey"}
          /\ EntryLines(temp_file) = ClassLines("new")
          /\ EntryLines(duplicate_failed_file) = ClassLines("conflict")
          /\ EntryLines(transform_failed_file) = ClassLines("nokey")
          /\ \A k \in DOMAIN duplicate_index_mem \cup {extract_key(csv_rows[i]) : i \in DOMAIN classes} :
                ExistingRows(duplicate_index_mem, k)
                   = ExistingRows(load_result.index, k) \o AcceptedUnder(k)

\* C29 witness: the row loop of a first run has ended: its first record was
\* new, its second in conflict with it; each is in its one file, under the
\* header.
C29_Witness ==
    /\ pc = "m_final"
    /\ run = 1
    /\ classes = <<"new", "conflict">>
    /\ Len(duplicate_failed_file.lines) = 2
    /\ Len(temp_file.lines) = 2
    /\ ~transform_failed_file.exists
    /\ duplicate_failed_file.lines[2] # temp_file.lines[2]
\* Every accepted row of run p is a line of the live index.
RowsCommitted(p) ==
    \A i \in DOMAIN c_rows[p] : \E j \in DOMAIN live_index.lines : live_index.lines[j] = c_rows[p][i]

BothSucceeded == \A p \in Procs : c_pc[p] = "done" /\ c_status[p] = 0

\* C30: two runs in finalize at the same time are not safe.  When both
\* have ended reporting success, the live index holds the accepted rows of
\* both only if one of them took its snapshot after the other had begun
\* to write the live index; whenever both snapshots were taken before
\* either commit began, rows of a run are missing.
C30_OverlappingRunsLoseRows ==
    (BothSucceeded /\ \A p \in Procs : RowsCommitted(p)) =>
        \E p \in Procs : \E q \in Procs \ {p} : q \in c_seen[p]

\* C30 witness: both runs took their snapshot before either began its
\* commit, both have ended reporting success, and the live index holds the
\* rows of run 2 and none of the rows of run 1.
C30_Witness ==
    /\ BothSucceeded
    /\ RowsCommitted(2)
    /\ \A i \in DOMAIN c_rows[1] :
          \A j \in DOMAIN live_index.lines : live_index.lines[j] # c_rows[1][i]
    /\ \A p \in Procs : c_seen[p] = {}
    /\ initial_index.exists

\* Every accepted row of the run is a line of the live index.
IndexHoldsNewEntries ==
    \A i \in DOMAIN transformed_rows.rows :
        \E j \in DOMAIN live_index.lines : live_index.lines[j] = transformed_rows.rows[i]

\* The normalized output is at its destination in NORMALIZED_DIR.
OutputRelocated ==
    normalized_suffix # "None" /\ Normalized(normalized_suffix) \in output_locations

\* C31 (as claimed): when a run of finalize with accepted rows has ended, by
\* any path, the live index holds the run's new entries exactly when the
\* normalized output has been relocated to NORMALIZED_DIR.
C31_IndexMatchesOutput ==
    (pc = "done" /\ Truthy(transformed_rows)) => (IndexHoldsNewEntries <=> OutputRelocated)

\* The restore copy step 3 of run p writes: the content of its index when it
\* entered finalize, an empty file when there was none.
AnchorOf(p) == FileOf(d_before[p].lines)

\* C32 (as claimed): with two runs on distinct index files, the staged
\* output of a run stays in TEMP_DIR until its own step 4, the restore copy
\* of a run stays as its step 3 wrote it until its step 4 or rollback is
\* over, and so no run's step 4 or rollback fails because of the other run.
C32_DistinctRunsIsolated ==
    \A p \in Procs :
        /\ (c_pc[p] \in {"s1", "s2", "s3", "s3_commit", "s4"} => p \in d_staged)
        /\ (c_pc[p] \in {"s3_commit", "s4", "s4_rollback"} => previous_file = AnchorOf(p))
        /\ c_status[p] # 92
        /\ d_rollback[p] # "raised"

\* C33 (as claimed): in every state of finalize, on every branch, the
\* source file exists at exactly one of its original location, its
\* destination in PROCESSED_DIR and the failed destination.
C33_SourceAtOnePlace ==
    /\ csv_locations \subseteq {Incoming, Processed(move_suffix), Failed}
    /\ Cardinality(csv_locations) = 1

\* The restore copy as step 3 has to leave it: the content of the live index
\* before step 3, an empty file when there was no index.
RollbackAnchor == FileOf(initial_index.lines)

\* A step that opens or writes the live index finds the restore copy
\* complete and leaves it as it is.
AnchorBeforeWrite ==
    (live_writes' # live_writes \/ live_index' # live_index) =>
        (previous_file = RollbackAnchor /\ previous_file' = previous_file)

\* C34: in step 3 the restore copy is complete before the live index is
\* first opened for writing, and it is still there, with the content the
\* index had before step 3, for as long as step 4 and its rollback run.
C34_AnchorBeforeCommit ==
    /\ []((pc \in {"s3_open", "s3_write", "s4_rb_open", "s4_rb_write"}
             \/ (pc = "s4" /\ previous_duplicate_index = "path")) =>
            previous_file = RollbackAnchor)
    /\ [][AnchorBeforeWrite]_vars

\* C34 witness: step 4 failed after a commit over an index with entries, and
\* the rollback copied the restore copy back over the live index.
C34_Witness ==
    /\ pc = "done"
    /\ failed_step = 4
    /\ Executed("s4_rollback")
    /\ live_writes = 2
    /\ Len(initial_index.lines) > 1
    /\ live_index = initial_index
    /\ previous_file = initial_index

\* C35: once one of steps 1-4 has failed, the run does nothing but the
\* handler of that step and the terminal report: steps 5, 6 and 7 are not
\* executed, no backup is rotated away, and at termination the staged
\* output is still in TEMP_DIR, as is the restore copy when step 3 wrote it.
C35_FailureSkipsCleanup ==
    failed_step \in 1..4 =>
        /\ pc \in {"s4_rb_open", "s4_rb_write", "s4_comp", "done"}
        /\ ~Executed("s5") /\ ~Executed("s6") /\ ~Executed("s7")
        /\ rotation_errors = 0 /\ deleted_by_age = {} /\ deleted_by_count = {}
        /\ (pc = "done" /\ temp_output_path # "" => TempOutput \in output_locations)
        /\ (pc = "done" /\ live_writes > 0 => previous_file = FileOf(initial_index.lines))

\* C35 witness: step 4 failed with writers still open and backups past the
\* age threshold in BACKUP_DIR; the run has ended, the staged output and the
\* restore copy of an index with entries are in TEMP_DIR.
C35_Witness ==
    /\ pc = "done"
    /\ failed_step = 4
    /\ exit_status = 92
    /\ open_writers # {}
    /\ Len(ExpiredByAge(backup_dir, now)) > 0
    /\ output_locations = {TempOutput}
    /\ Len(previous_file.lines) > 1

\* A row read from an index file carries a duplicate_key that is not blank.
HasStoredKey(row) ==
    /\ DuplicateKeyColumn \in DOMAIN row
    /\ row[DuplicateKeyColumn] # NoneValue
    /\ Core(row[DuplicateKeyColumn]) # <<>>

\* The rows stored in an index, under any key.
EntriesOf(index) == UNION {Range(index[k]) : k \in DOMAIN index}

\* The records of the batch handled so far whose BANKREFERENTIE is blank.
BlankKeyPositions == {i \in DOMAIN classes : Core(csv_rows[i][BANKREFERENTIE]) = <<>>}

\* C36: no key of the duplicate index, as loaded from disk or as held in
\* memory during the row loop, is empty after trimming: loading stores
\* exactly the rows of the file whose duplicate_key is not blank, and a
\* record of the batch whose key is blank goes to the file of rejected rows
\* and to neither the index nor the staged output.
C36_NoBlankIndexKey ==
    /\ \A k \in DOMAIN duplicate_index_mem : Core(k) # <<>>
    /\ \A k \in DOMAIN load_result.index : Core(k) # <<>>
    /\ (load_result.called /\ ~load_result.raised /\ load_result.file.exists) =>
          LET rows == DictReaderRows(load_result.file.lines)
          IN  \A i \in DOMAIN rows :
                 (rows[i] \in EntriesOf(load_result.index)) <=> HasStoredKey(rows[i])
    /\ pc \in {"m_rows", "m_final"} =>
          \A i \in BlankKeyPositions :
             LET line == [j \in DOMAIN KeysOf(csv_rows[i]) |-> csv_rows[i][KeysOf(csv_rows[i])[j]]]
             IN  /\ classes[i] = "nokey"
                 /\ line \in Range(EntryLines(transform_failed_file))
                 /\ line \notin Range(EntryLines(temp_file))
                 /\ csv_rows[i] \notin EntriesOf(duplicate_index_mem)
    /\ pc \in {"m_rows", "m_final"} =>
          \A i \in DOMAIN classes :
             /\ (extract_duplicate_key(csv_rows[i], <<BANKREFERENTIE>>) = NoneValue)
                   <=> (i \in BlankKeyPositions)
             /\ LET key == extract_duplicate_key(csv_rows[i], KeysOf(csv_rows[i]))
                IN  key = NoneValue \/ Core(key) # <<>>

\* C36 witness: the index file a second run loaded holds a row whose
\* duplicate_key is blank, nothing was stored for it, and the run has
\* rejected a record with a blank key and accepted another.
C36_Witness ==
    /\ run = 2
    /\ pc = "m_final"
    /\ load_result.called /\ ~load_result.raised
    /\ \E i \in DOMAIN DictReaderRows(load_result.file.lines) :
          LET r == DictReaderRows(load_result.file.lines)[i]
          IN  DuplicateKeyColumn \in DOMAIN r /\ r[DuplicateKeyColumn] = <<" ">>
    /\ load_result.index = <<>>
    /\ classes = <<"nokey", "new">>
====
